---- MODULE Spec2Model ----
(***************************************************************************)
(* pathTool: the offline gait-trajectory compiler of NodeHexa.             *)
(*                                                                         *)
(* Lengths are fixed-point integers in micro-units (1e-6 mm), angles are   *)
(* in milli-degrees, sines and cosines are scaled by TrigScale.  All       *)
(* sequences are 0-based functions, as in the Python source.               *)
(***************************************************************************)
EXTENDS Integers, Sequences, FiniteSets, TLC

(***************************************************************************)
(* Fixed-point arithmetic standing for Python's float arithmetic.          *)
(***************************************************************************)
Micro == 1000000
TrigScale == 10000
HalfTurn == 180000

Abs(a) == IF a < 0 THEN -a ELSE a

Sgn(a) == IF a < 0 THEN -1 ELSE IF a > 0 THEN 1 ELSE 0

\* a / b rounded to the nearest integer, symmetric in the sign of a (b > 0).
RoundDiv(a, b) == Sgn(a) * ((2 * Abs(a) + b) \div (2 * b))

\* a * num / den rounded, split so that no intermediate product leaves 32 bits.
MulDiv(a, num, den) ==
    LET m == Abs(a)
        k == Abs(num)
    IN  Sgn(a) * Sgn(num) * ((m \div den) * k + RoundDiv((m % den) * k, den))

\* a * c for a sine or cosine c scaled by TrigScale.
MulT(a, c) == MulDiv(a, c, TrigScale)

\* a * num / den for the decimal factors of the source (1.5, 2.0, 1.6, 0.6).
Scale(a, num, den) == MulDiv(a, num, den)

\* sin of k * 3 degrees, k in 0..30, scaled by TrigScale.
SinTable ==
    <<0, 523, 1045, 1564, 2079, 2588, 3090, 3584, 4067, 4540, 5000,
      5446, 5878, 6293, 6691, 7071, 7431, 7771, 8090, 8387, 8660,
      8910, 9135, 9336, 9511, 9659, 9781, 9877, 9945, 9986, 10000>>

\* sin of an angle in 0..90000 milli-degrees: the table at the nearest
\* multiple of 3 degrees, corrected by sin(a0 + d) = sin a0 cos d + cos a0 sin d.
SinQuadrant(a) ==
    LET k  == (a + 1500) \div 3000
        d  == a - 3000 * k
        s0 == SinTable[k + 1]
        c0 == SinTable[31 - k]
        dr == RoundDiv(d * 17453, 100000)
        cd == TrigScale - RoundDiv(dr * dr, 2 * TrigScale)
    IN  IF d = 0 THEN s0 ELSE RoundDiv(s0 * cd + c0 * dr, TrigScale)

\* math.sin of an angle given in milli-degrees.
SinDeg(a) ==
    LET r == a % (2 * HalfTurn)
    IN  IF r <= 90000 THEN SinQuadrant(r)
        ELSE IF r <= 180000 THEN SinQuadrant(180000 - r)
        ELSE IF r <= 270000 THEN -SinQuadrant(r - 180000)
        ELSE -SinQuadrant(360000 - r)

\* math.cos of an angle given in milli-degrees.
CosDeg(a) == SinDeg(a + 90000)

\* math.atan2(y, x) in milli-degrees, in (-180000, 180000]: bisection on the
\* first quadrant for the angle whose direction is (|x|, |y|).
RECURSIVE AtanSearch(_, _, _, _)
AtanSearch(y, x, lo, hi) ==
    IF hi - lo <= 1 THEN lo
    ELSE LET mid == (lo + hi) \div 2
         IN  IF MulT(y, CosDeg(mid)) - MulT(x, SinDeg(mid)) >= 0
             THEN AtanSearch(y, x, mid, hi)
             ELSE AtanSearch(y, x, lo, mid)

Atan2Deg(y, x) ==
    LET q == IF x = 0 THEN (IF y = 0 THEN 0 ELSE 90000)
             ELSE AtanSearch(Abs(y), Abs(x), 0, 90000)
    IN  IF x >= 0 THEN Sgn(y) * q
        ELSE IF y >= 0 THEN 180000 - q ELSE q - 180000

(***************************************************************************)
(* 0-based lists: a list of length n is a function on 0..n-1.              *)
(***************************************************************************)
Len0(l) == Cardinality(DOMAIN l)

Slice0(l, from, to) == [i \in 0..(to - from - 1) |-> l[from + i]]

Concat0(a, b) ==
    [i \in 0..(Len0(a) + Len0(b) - 1) |->
        IF i < Len0(a) THEN a[i] ELSE b[i - Len0(a)]]

\* A rotation to the right by one frame more than asked for.
right_rotate_one_more(path, rotation_num) ==
    Concat0(Slice0(path, Len0(path) - rotation_num - 1, Len0(path)),
            Slice0(path, 0, Len0(path) - rotation_num - 1))

\* path[(len(path) - rotation_num):] + path[:(len(path) - rotation_num)]
right_rotate_path(path, rotation_num) ==
    Concat0(Slice0(path, Len0(path) - rotation_num, Len0(path)),
            Slice0(path, 0, Len0(path) - rotation_num))

\* path[rotation_num:] + path[:rotation_num]
left_rotate_path(path, rotation_num) ==
    Concat0(Slice0(path, rotation_num, Len0(path)),
            Slice0(path, 0, rotation_num))

(***************************************************************************)
(* QuadGait (models/quad_gait.py).  A gait object g is the record          *)
(* [home_x, home_y, home_z, amplitudeX, amplitudeZ, frame_time_ms]; a      *)
(* vector is <<x, y, z>>.                                                  *)
(***************************************************************************)
GAIT_TROT == 0
GAIT_WALK == 1
GAIT_GALLOP == 2
GAIT_CREEP == 3
MOVE_STANDBY == 11
MOVE_FORWARD == 12

Legs == 0..3

\* math.pi * tick_cnt / num_ticks and math.pi / 2 * tick_cnt / num_ticks
PiFrac(tick_cnt, num_ticks) == RoundDiv(HalfTurn * tick_cnt, num_ticks)

HalfPiFrac(tick_cnt, num_ticks) == RoundDiv((HalfTurn \div 2) * tick_cnt, num_ticks)

\* A tick count rounded up instead of truncated.
NumTicksRoundedUp(duration, frame_time_ms, stages) ==
    (duration \div frame_time_ms) \div stages + 1

\* int(duration / frame_time_ms / stages)
NumTicks(duration, frame_time_ms, stages) == (duration \div frame_time_ms) \div stages

trot_duration(g, gait_speed) ==
    IF gait_speed = 0 THEN g.frame_time_ms * 20 ELSE g.frame_time_ms * 40

walk_duration(g, gait_speed) ==
    IF gait_speed = 0 THEN 4 * 4 * g.frame_time_ms ELSE 1280

creep_duration(g, gait_speed) ==
    IF gait_speed = 0 THEN 6 * 6 * g.frame_time_ms ELSE 12 * 6 * g.frame_time_ms

\* QuadGait._formated_path_status: the four legs' waveforms in the order they
\* are passed, standby replaced by one zero frame, home positions added.
\* A formatter that returns the whole cycle for every move status.
formated_path_any_status(g, p0, p1, p2, p3, move_status) ==
    [path_id \in 0..(Len0(p0) - 1) |->
        [leg \in Legs |->
            LET p == CASE leg = 0 -> p0[path_id]
                       [] leg = 1 -> p1[path_id]
                       [] leg = 2 -> p2[path_id]
                       [] leg = 3 -> p3[path_id]
            IN  <<p[1] + g.home_x[leg], p[2] + g.home_y[leg], p[3] + g.home_z[leg]>>]]

formated_path_status(g, p0, p1, p2, p3, move_status) ==
    LET path_quad == [path_id \in 0..(Len0(p0) - 1) |->
                        [leg \in Legs |->
                            CASE leg = 0 -> p0[path_id]
                              [] leg = 1 -> p1[path_id]
                              [] leg = 2 -> p2[path_id]
                              [] leg = 3 -> p3[path_id]]]
        corrected_path ==
            IF move_status = MOVE_STANDBY
            THEN [path_id \in 0..0 |-> [leg \in Legs |-> <<0, 0, 0>>]]
            ELSE path_quad
    IN  [path_id \in DOMAIN corrected_path |->
            [leg \in Legs |->
                <<corrected_path[path_id][leg][1] + g.home_x[leg],
                  corrected_path[path_id][leg][2] + g.home_y[leg],
                  corrected_path[path_id][leg][3] + g.home_z[leg]>>]]

\* A trot waveform whose lift lowers the foot.
trot_reference_lift_down(g, num_ticks) ==
    [interp_id \in 0..(num_ticks * 2 - 1) |->
        LET stage_id == interp_id \div num_ticks
            tick_cnt == interp_id % num_ticks
        IN  IF stage_id = 0
            THEN <<MulT(-g.amplitudeX, CosDeg(PiFrac(tick_cnt, num_ticks))),
                   0,
                   -MulT(Abs(g.amplitudeZ), SinDeg(PiFrac(tick_cnt, num_ticks)))>>
            ELSE <<MulT(g.amplitudeX, CosDeg(PiFrac(tick_cnt, num_ticks))), 0, 0>>]

trot_reference(g, num_ticks) ==
    [interp_id \in 0..(num_ticks * 2 - 1) |->
        LET stage_id == interp_id \div num_ticks
            tick_cnt == interp_id % num_ticks
        IN  IF stage_id = 0
            THEN <<MulT(-g.amplitudeX, CosDeg(PiFrac(tick_cnt, num_ticks))),
                   0,
                   MulT(Abs(g.amplitudeZ), SinDeg(PiFrac(tick_cnt, num_ticks)))>>
            ELSE <<MulT(g.amplitudeX, CosDeg(PiFrac(tick_cnt, num_ticks))), 0, 0>>]

trot_gait(g, move_status, gait_speed) ==
    LET num_ticks == NumTicks(trot_duration(g, gait_speed), g.frame_time_ms, 2)
        fr_path_quad == trot_reference(g, num_ticks)
        fl_path_quad == right_rotate_path(fr_path_quad, num_ticks)
        bl_path_quad == fr_path_quad
        br_path_quad == fl_path_quad
    IN  formated_path_status(g, fr_path_quad, fl_path_quad, bl_path_quad,
                             br_path_quad, move_status)

\* The reference waveform shared by walk_gait and gallop_gait (leg FL).
walk_reference(g, num_ticks) ==
    [interp_id \in 0..(num_ticks * 4 - 1) |->
        LET stage_id == interp_id \div num_ticks
            tick_cnt == interp_id % num_ticks
        IN  IF stage_id = 0
            THEN <<Scale(MulT(-g.amplitudeX, CosDeg(PiFrac(tick_cnt, num_ticks))), 15, 10),
                   0,
                   MulT(Abs(g.amplitudeZ), SinDeg(PiFrac(tick_cnt, num_ticks)))>>
            ELSE <<Scale(g.amplitudeX
                         - MulDiv(g.amplitudeX, 2 * ((stage_id - 1) * num_ticks + tick_cnt),
                                  3 * num_ticks), 15, 10),
                   0, 0>>]

\* A walk whose BL steps together with FR, as the diagonal legs of a trot do.
walk_gait_diagonal(g, move_status, gait_speed) ==
    LET num_ticks == NumTicks(walk_duration(g, gait_speed), g.frame_time_ms, 4)
        fl_path_quad == walk_reference(g, num_ticks)
        fr_path_quad == right_rotate_path(fl_path_quad, num_ticks * 2)
        br_path_quad == right_rotate_path(fl_path_quad, num_ticks * 1)
        bl_path_quad == right_rotate_path(fl_path_quad, num_ticks * 2)
    IN  formated_path_status(g, fr_path_quad, fl_path_quad, bl_path_quad,
                             br_path_quad, move_status)

walk_gait(g, move_status, gait_speed) ==
    LET num_ticks == NumTicks(walk_duration(g, gait_speed), g.frame_time_ms, 4)
        fl_path_quad == walk_reference(g, num_ticks)
        fr_path_quad == right_rotate_path(fl_path_quad, num_ticks * 2)
        br_path_quad == right_rotate_path(fl_path_quad, num_ticks * 1)
        bl_path_quad == right_rotate_path(fl_path_quad, num_ticks * 3)
    IN  formated_path_status(g, fr_path_quad, fl_path_quad, bl_path_quad,
                             br_path_quad, move_status)

gallop_gait(g, move_status, gait_speed) ==
    LET num_ticks == NumTicks(walk_duration(g, gait_speed), g.frame_time_ms, 4)
        fl_path_quad == walk_reference(g, num_ticks)
        fr_path_quad == right_rotate_path(fl_path_quad, num_ticks * 1)
        br_path_quad == right_rotate_path(fl_path_quad, num_ticks * 2)
        bl_path_quad == right_rotate_path(fl_path_quad, num_ticks * 3)
    IN  formated_path_status(g, fr_path_quad, fl_path_quad, bl_path_quad,
                             br_path_quad, move_status)

creep_fr_reference(g, num_ticks) ==
    [interp_id \in 0..(num_ticks * 6 - 1) |->
        LET stage_id == interp_id \div num_ticks
            tick_cnt == interp_id % num_ticks
        IN  CASE stage_id = 0 ->
                 <<Scale(MulT(-g.amplitudeX, CosDeg(PiFrac(tick_cnt, num_ticks))), 20, 10),
                   0,
                   Scale(MulT(Abs(g.amplitudeZ), SinDeg(PiFrac(tick_cnt, num_ticks))), 15, 10)>>
              [] stage_id = 1 ->
                 <<Scale(MulT(g.amplitudeX, CosDeg(HalfPiFrac(tick_cnt, num_ticks))), 20, 10),
                   0, 0>>
              [] stage_id = 4 ->
                 <<Scale(MulT(-g.amplitudeX, SinDeg(HalfPiFrac(tick_cnt, num_ticks))), 20, 10),
                   0, 0>>
              [] stage_id = 5 -> <<Scale(-g.amplitudeX, 20, 10), 0, 0>>
              [] OTHER -> <<0, 0, 0>>]

creep_bl_reference(g, num_ticks) ==
    [interp_id \in 0..(num_ticks * 6 - 1) |->
        LET stage_id == interp_id \div num_ticks
            tick_cnt == interp_id % num_ticks
        IN  CASE stage_id = 1 ->
                 <<Scale(MulT(-g.amplitudeX, SinDeg(HalfPiFrac(tick_cnt, num_ticks))), 20, 10),
                   0, 0>>
              [] stage_id = 2 ->
                 <<Scale(MulT(-g.amplitudeX, CosDeg(PiFrac(tick_cnt, num_ticks))), 20, 10),
                   0,
                   Scale(MulT(Abs(g.amplitudeZ), SinDeg(PiFrac(tick_cnt, num_ticks))), 15, 10)>>
              [] stage_id = 3 -> <<Scale(g.amplitudeX, 20, 10), 0, 0>>
              [] stage_id = 4 ->
                 <<Scale(MulT(g.amplitudeX, CosDeg(HalfPiFrac(tick_cnt, num_ticks))), 20, 10),
                   0, 0>>
              [] OTHER -> <<0, 0, 0>>]

creep_gait(g, move_status, gait_speed) ==
    LET num_ticks == NumTicks(creep_duration(g, gait_speed), g.frame_time_ms, 6)
        fr_path_quad == creep_fr_reference(g, num_ticks)
        bl_path_quad == creep_bl_reference(g, num_ticks)
        fl_path_quad == left_rotate_path(fr_path_quad, Len0(fr_path_quad) \div 2)
        br_path_quad == left_rotate_path(bl_path_quad, Len0(bl_path_quad) \div 2)
    IN  formated_path_status(g, fr_path_quad, fl_path_quad, bl_path_quad,
                             br_path_quad, move_status)

\* The waveforms fr_path_quad, fl_path_quad, bl_path_quad and br_path_quad
\* that trot_gait, walk_gait, gallop_gait and creep_gait synthesise, by
\* the leg each is named for.
named_paths(g, gait_mode, gait_speed) ==
    CASE gait_mode = GAIT_TROT ->
            LET num_ticks == NumTicks(trot_duration(g, gait_speed), g.frame_time_ms, 2)
                fr == trot_reference(g, num_ticks)
                fl == right_rotate_path(fr, num_ticks)
            IN  [fr |-> fr, fl |-> fl, bl |-> fr, br |-> fl]
      [] gait_mode = GAIT_WALK ->
            LET num_ticks == NumTicks(walk_duration(g, gait_speed), g.frame_time_ms, 4)
                fl == walk_reference(g, num_ticks)
            IN  [fr |-> right_rotate_path(fl, num_ticks * 2), fl |-> fl,
                 bl |-> right_rotate_path(fl, num_ticks * 3),
                 br |-> right_rotate_path(fl, num_ticks * 1)]
      [] gait_mode = GAIT_GALLOP ->
            LET num_ticks == NumTicks(walk_duration(g, gait_speed), g.frame_time_ms, 4)
                fl == walk_reference(g, num_ticks)
            IN  [fr |-> right_rotate_path(fl, num_ticks * 1), fl |-> fl,
                 bl |-> right_rotate_path(fl, num_ticks * 3),
                 br |-> right_rotate_path(fl, num_ticks * 2)]
      [] gait_mode = GAIT_CREEP ->
            LET num_ticks == NumTicks(creep_duration(g, gait_speed), g.frame_time_ms, 6)
                fr == creep_fr_reference(g, num_ticks)
                bl == creep_bl_reference(g, num_ticks)
            IN  [fr |-> fr, fl |-> left_rotate_path(fr, Len0(fr) \div 2),
                 bl |-> bl, br |-> left_rotate_path(bl, Len0(bl) \div 2)]

\* A gen_path that treats an unknown mode as trot.
gen_path_default_trot(g, gait_mode, move_status, gait_speed) ==
    CASE gait_mode = GAIT_WALK ->
            [raised |-> "none", path |-> walk_gait(g, move_status, gait_speed)]
      [] gait_mode = GAIT_GALLOP ->
            [raised |-> "none", path |-> gallop_gait(g, move_status, gait_speed)]
      [] gait_mode = GAIT_CREEP ->
            [raised |-> "none", path |-> creep_gait(g, move_status, gait_speed)]
      [] OTHER -> [raised |-> "none", path |-> trot_gait(g, move_status, gait_speed)]

\* QuadGait.gen_path: the trajectory, or the ValueError of an unknown mode.
gen_path(g, gait_mode, move_status, gait_speed) ==
    CASE gait_mode = GAIT_TROT ->
            [raised |-> "none", path |-> trot_gait(g, move_status, gait_speed)]
      [] gait_mode = GAIT_WALK ->
            [raised |-> "none", path |-> walk_gait(g, move_status, gait_speed)]
      [] gait_mode = GAIT_GALLOP ->
            [raised |-> "none", path |-> gallop_gait(g, move_status, gait_speed)]
      [] gait_mode = GAIT_CREEP ->
            [raised |-> "none", path |-> creep_gait(g, move_status, gait_speed)]
      [] OTHER -> [raised |-> "ValueError", path |-> [i \in {} |-> 0]]

(***************************************************************************)
(* QuadModel (models/quad.py).  A table is the tuple (data, mode, dur,     *)
(* entries) of the source as a record; data[leg][i] is the displacement of *)
(* leg `leg` in frame i; entries is a 0-based list of frame indices.       *)
(***************************************************************************)
LEG_COUNT == 4

\* 1e-6, the lift threshold of choose_start_index_from_fr, in micro-units.
LiftEps == 1

\* Decimal places of pose_key: values are rounded to 1e-4, 100 micro-units.
PoseQuantum == 100

Table(data, mode, dur, entries) ==
    [data |-> data, mode |-> mode, dur |-> dur, entries |-> entries]

List1(a) == [i \in 0..0 |-> a]

List2(a, b) == [i \in 0..1 |-> IF i = 0 THEN a ELSE b]

\* The hard-coded defaults of _load_firmware_config: lengths in micro-units,
\* the stance sine and cosine scaled by TrigScale.
ConfigDefaults ==
    [kLegRootToJoint1    |-> 20750000,
     kLegJoint1ToJoint2  |-> 28000000,
     kLegJoint2ToJoint3  |-> 42600000,
     kLegJoint3ToTip     |-> 89070000,
     kQuadLegMountOtherX |-> 25000000,
     kQuadLegMountOtherY |-> 45000000,
     kQuadStanceAngleDeg |-> 45000000,
     kQuadStanceCos      |-> 7071,
     kQuadStanceSin      |-> 7071]

\* QuadModel._load_firmware_config on a config.h that is unreadable
\* (readable = FALSE) or defines the constants in file.defs.
\* A get_float that yields 0 for a constant the file does not define.
get_float_or_zero(file, name) ==
    IF name \in DOMAIN file.defs THEN file.defs[name] ELSE 0

\* get_float, lines 73-75: the parsed value of the definition the pattern
\* matches, the default without a match.
get_float(file, name) ==
    IF name \in DOMAIN file.defs THEN file.defs[name] ELSE ConfigDefaults[name]

load_firmware_config(file) ==
    IF ~file.readable THEN ConfigDefaults
    ELSE [k \in DOMAIN ConfigDefaults |-> get_float(file, k)]

\* Line 82: the warning of the except branch.
load_warnings(file) ==
    IF ~file.readable
    THEN <<"Load quadruped firmware config failed, using default values!">>
    ELSE << >>

\* Lines 18-20 and 44: the index of each leg in home_x, home_y and home_z,
\* 0:FR, 1:BR, 2:BL, 3:FL.
model_leg_index == [fr |-> 0, br |-> 1, bl |-> 2, fl |-> 3]

\* QuadModel.__init__: the home positions and the QuadGait built on them.
QuadModelInit(file) ==
    LET cfg == load_firmware_config(file)
        SIN30 == 5000
        COS30 == 8660
        SIN10 == 1736
        COS10 == 9848
        standby_z_pos == MulT(cfg.kLegJoint3ToTip, COS10) - MulT(cfg.kLegJoint2ToJoint3, SIN30)
        reach == cfg.kLegRootToJoint1 + cfg.kLegJoint1ToJoint2
                 + MulT(cfg.kLegJoint2ToJoint3, COS30) + MulT(cfg.kLegJoint3ToTip, SIN10)
        reach_x == MulT(reach, cfg.kQuadStanceCos)
        reach_y == MulT(reach, cfg.kQuadStanceSin)
        offset_x == cfg.kQuadLegMountOtherX + reach_x
        offset_y == cfg.kQuadLegMountOtherY + reach_y
        standby_z == -standby_z_pos
    IN  [home_x |-> [l \in Legs |-> IF l \in {0, 1} THEN offset_x ELSE -offset_x],
         home_y |-> [l \in Legs |-> IF l \in {0, 3} THEN offset_y ELSE -offset_y],
         home_z |-> [l \in Legs |-> standby_z],
         amplitudeX |-> 25 * Micro,
         amplitudeZ |-> 35 * Micro,
         frame_time_ms |-> 20]

\* QuadModel._generate_shift_data_from_world
generate_shift_data_from_world(g, frames_world) ==
    [leg \in Legs |->
        [i \in DOMAIN frames_world |->
            <<frames_world[i][leg][1] - g.home_x[leg],
              frames_world[i][leg][2] - g.home_y[leg],
              frames_world[i][leg][3] - g.home_z[leg]>>]]

gait_stages(gait_mode) ==
    CASE gait_mode = GAIT_TROT -> 2
      [] gait_mode = GAIT_WALK -> 4
      [] gait_mode = GAIT_GALLOP -> 4
      [] gait_mode = GAIT_CREEP -> 6
      [] OTHER -> 2

Max2(a, b) == IF a >= b THEN a ELSE b

MaxOf(S) == CHOOSE m \in S : \A x \in S : x <= m

MinOf(S) == CHOOSE m \in S : \A x \in S : m <= x

\* choose_start_index_from_fr: the lowest index, among the frames within
\* LiftEps of leg 0's highest lift, with the smallest |dy|; -1 with no lift.
\* A selector that takes the first frame of maximal lift only.
choose_first_peak(data_fwd_leg0) ==
    IF DOMAIN data_fwd_leg0 = {} THEN -1
    ELSE LET max_dz == MaxOf({data_fwd_leg0[i][3] : i \in DOMAIN data_fwd_leg0})
         IN  IF max_dz <= LiftEps THEN -1
             ELSE MinOf({i \in DOMAIN data_fwd_leg0 : data_fwd_leg0[i][3] = max_dz})

choose_start_index_from_fr(data_fwd_leg0) ==
    IF DOMAIN data_fwd_leg0 = {} THEN -1
    ELSE LET max_dz == MaxOf({data_fwd_leg0[i][3] : i \in DOMAIN data_fwd_leg0})
             cand == {i \in DOMAIN data_fwd_leg0 :
                        Abs(data_fwd_leg0[i][3] - max_dz) <= LiftEps}
             best_dy == MinOf({Abs(data_fwd_leg0[i][2]) : i \in cand})
         IN  IF max_dz <= LiftEps THEN -1
             ELSE MinOf({i \in cand : Abs(data_fwd_leg0[i][2]) = best_dy})

\* Lines 261-270 and compute_entries_for_data: the two heuristic entries of
\* a trajectory of n frames.
compute_entries(data_leg0, n, stages) ==
    LET s0 == choose_start_index_from_fr(data_leg0)
        s1 == IF s0 < 0 THEN n \div Max2(1, 2 * stages) ELSE s0
        s2 == IF s1 < 0 THEN 0 ELSE s1
        s  == IF s2 >= n THEN 0 ELSE s2
        h  == (s + n \div 2) % Max2(1, n)
    IN  IF n >= 2 THEN List2(s, h) ELSE List1(s)

\* The fast entries with the half-cycle index not wrapped into the cycle.
compute_entries_fast_unwrapped(data_leg0, n) ==
    LET s0 == choose_start_index_from_fr(data_leg0)
        s  == IF s0 < 0 \/ s0 >= n THEN 0 ELSE s0
    IN  IF n >= 2 THEN List2(s, s + n \div 2) ELSE List1(s)

\* Lines 370-374: the entries of forwardfast (no stage fallback).
compute_entries_fast(data_leg0, n) ==
    LET s0 == choose_start_index_from_fr(data_leg0)
        s  == IF s0 < 0 \/ s0 >= n THEN 0 ELSE s0
        h  == (s + n \div 2) % Max2(1, n)
    IN  IF n >= 2 THEN List2(s, h) ELSE List1(s)

\* A rotation that takes the cosine where the sine belongs.
rot_z_cos_twice(vec, deg) ==
    LET c == CosDeg(deg)
    IN  <<MulT(vec[1], c) - MulT(vec[2], c), MulT(vec[1], c) + MulT(vec[2], c), vec[3]>>

rot_z(vec, deg) ==
    LET c == CosDeg(deg)
        s == SinDeg(deg)
    IN  <<MulT(vec[1], c) - MulT(vec[2], s), MulT(vec[1], s) + MulT(vec[2], c), vec[3]>>

rot_point_x(p, deg) ==
    LET c == CosDeg(deg)
        s == SinDeg(deg)
    IN  <<p[1], MulT(p[2], c) - MulT(p[3], s), MulT(p[2], s) + MulT(p[3], c)>>

rot_point_y(p, deg) ==
    LET c == CosDeg(deg)
        s == SinDeg(deg)
    IN  <<MulT(p[1], c) + MulT(p[3], s), p[2], MulT(-p[1], s) + MulT(p[3], c)>>

rot_point_z(p, deg) == rot_z(p, deg)

perm_front_back == [l \in Legs |-> CASE l = 0 -> 1 [] l = 1 -> 0 [] l = 2 -> 3 [] l = 3 -> 2]

perm_rotate_cw == [l \in Legs |-> CASE l = 0 -> 1 [] l = 1 -> 2 [] l = 2 -> 3 [] l = 3 -> 0]

\* A rotation of the legs by half a turn.
perm_rotate_half == [l \in Legs |-> (l + 2) % 4]

perm_rotate_ccw == [l \in Legs |-> CASE l = 0 -> 3 [] l = 3 -> 2 [] l = 2 -> 1 [] l = 1 -> 0]

perm_identity == [l \in Legs |-> l]

\* remap_legs_by_old_to_new: leg old_to_new[old] gets old's sequence, the
\* assignments made for old = 0, 1, 2, 3 in turn over a zero-filled table.
RECURSIVE RemapFrom(_, _, _, _)
RemapFrom(out_data, data_in, old_to_new, old_leg) ==
    IF old_leg >= LEG_COUNT THEN out_data
    ELSE RemapFrom([out_data EXCEPT ![old_to_new[old_leg]] = data_in[old_leg]],
                   data_in, old_to_new, old_leg + 1)

remap_legs_by_old_to_new(data_in, old_to_new, n) ==
    RemapFrom([leg \in Legs |-> [i \in 0..(n - 1) |-> <<0, 0, 0>>]],
              data_in, old_to_new, 0)

\* round(v, 4) of a value in micro-units.
Round4(v) == RoundDiv(v, PoseQuantum)

pose_key(data_in, idx) ==
    [leg \in Legs |->
        <<Round4(data_in[leg][idx][1]), Round4(data_in[leg][idx][2]),
          Round4(data_in[leg][idx][3])>>]

\* find_matching_index: the first frame of data_dst with the pose of
\* data_src[idx_src], or -1.
find_matching_index(data_src, idx_src, data_dst) ==
    IF DOMAIN data_dst[0] = {} THEN -1
    ELSE LET key == pose_key(data_src, idx_src)
             hits == {j \in DOMAIN data_dst[0] : pose_key(data_dst, j) = key}
         IN  IF hits = {} THEN -1 ELSE MinOf(hits)

\* A reversal that does not keep frame 0 in place: out[leg][i] = in[leg][n - 1 - i]
reverse_plain(data_in) ==
    LET n == Len0(data_in[0])
    IN  [leg \in Legs |-> [i \in 0..(n - 1) |-> data_in[leg][n - 1 - i]]]

\* reverse_cycle: out[leg][i] = in[leg][(n - i) % n]
reverse_cycle(data_in) ==
    LET n == Len0(data_in[0])
    IN  [leg \in Legs |-> [i \in 0..(n - 1) |-> data_in[leg][(n - i) % n]]]

make_variant_from(data_src, transform_fn(_, _), n) ==
    [leg \in Legs |-> [i \in 0..(n - 1) |-> transform_fn(leg, data_src[leg][i])]]

\* radial_deg: the direction of the leg's home position, in [0, 360) degrees.
radial_deg(g, leg) == (Atan2Deg(g.home_y[leg], g.home_x[leg]) + 2 * HalfTurn) % (2 * HalfTurn)

left_angles(g, leg) == (radial_deg(g, leg) + 90000) % (2 * HalfTurn)

right_angles(g, leg) == (radial_deg(g, leg) - 90000) % (2 * HalfTurn)

phase_sensitive_gaits == {GAIT_WALK, GAIT_CREEP}

gait_defs ==
    [k \in 0..3 |->
        CASE k = 0 -> [base_name |-> "quad_trot", gait_mode |-> GAIT_TROT]
          [] k = 1 -> [base_name |-> "quad_walk", gait_mode |-> GAIT_WALK]
          [] k = 2 -> [base_name |-> "quad_gallop", gait_mode |-> GAIT_GALLOP]
          [] k = 3 -> [base_name |-> "quad_creep", gait_mode |-> GAIT_CREEP]]

\* A backward table whose legs are remapped for the phase-sensitive gaits only.
backward_data_gallop_unmapped(gait_mode, data_fwd, n) ==
    LET mirrored == make_variant_from(data_fwd, LAMBDA leg, v : <<v[1], -v[2], v[3]>>, n)
    IN  IF gait_mode \in phase_sensitive_gaits
        THEN remap_legs_by_old_to_new(mirrored, perm_front_back, n)
        ELSE mirrored

\* The backward table of lines 377-388.
backward_data(gait_mode, data_fwd, n) ==
    LET mirrored == make_variant_from(data_fwd, LAMBDA leg, v : <<v[1], -v[2], v[3]>>, n)
    IN  IF gait_mode \in phase_sensitive_gaits \/ gait_mode = GAIT_GALLOP
        THEN remap_legs_by_old_to_new(mirrored, perm_front_back, n)
        ELSE mirrored

backward_entries(gait_mode, data_bwd, entries, n) ==
    IF gait_mode \in phase_sensitive_gaits \/ gait_mode = GAIT_GALLOP
    THEN compute_entries(data_bwd[0], n, gait_stages(gait_mode))
    ELSE entries

\* The shiftleft table of lines 392-403.
shiftleft_data(gait_mode, data_fwd, n) ==
    LET rotated == make_variant_from(data_fwd, LAMBDA leg, v : rot_z(v, 90000), n)
    IN  IF gait_mode \in phase_sensitive_gaits
        THEN remap_legs_by_old_to_new(rotated, perm_rotate_ccw, n)
        ELSE rotated

shiftleft_entries(gait_mode, data_sl, entries, n) ==
    IF gait_mode \in phase_sensitive_gaits
    THEN compute_entries(data_sl[0], n, gait_stages(gait_mode))
    ELSE entries

\* The shiftright table of lines 404-420.
shiftright_data(gait_mode, data_fwd, data_sl, n) ==
    LET rotated == make_variant_from(data_fwd, LAMBDA leg, v : rot_z(v, -90000), n)
    IN  IF gait_mode = GAIT_GALLOP THEN reverse_cycle(data_sl)
        ELSE IF gait_mode \in phase_sensitive_gaits
        THEN remap_legs_by_old_to_new(rotated, perm_rotate_cw, n)
        ELSE rotated

shiftright_entries(gait_mode, data_sr, entries, entries_sl, n) ==
    IF gait_mode = GAIT_GALLOP THEN entries_sl
    ELSE IF gait_mode \in phase_sensitive_gaits
    THEN compute_entries(data_sr[0], n, gait_stages(gait_mode))
    ELSE entries

\* The turnleft table of lines 435-440.
turnleft_data(g, data_fwd, n) ==
    make_variant_from(data_fwd, LAMBDA leg, v : rot_z(v, left_angles(g, leg) - 90000), n)

\* The turnright table of lines 443-452.
turnright_data(g, gait_mode, data_bwd, data_tl, n) ==
    IF gait_mode = GAIT_GALLOP THEN reverse_cycle(data_tl)
    ELSE make_variant_from(data_bwd,
                           LAMBDA leg, v : rot_z(v, right_angles(g, leg) - 270000), n)

turnright_entries(gait_mode, data_tr, entries, entries_tl, n) ==
    IF gait_mode = GAIT_GALLOP THEN entries_tl
    ELSE IF gait_mode \in phase_sensitive_gaits
    THEN compute_entries(data_tr[0], n, gait_stages(gait_mode))
    ELSE entries

\* Always the first heuristic entry.
always_first(es) == es[0]

\* a_entries[1] if len(a_entries) >= 2 else a_entries[0]
second_or_first(es) == IF Len0(es) >= 2 THEN es[1] ELSE es[0]

\* A normalisation that leaves table b with its own candidate.
normalize_pair_b_unmatched(a, b) ==
    Table(b.data, b.mode, b.dur, List1(second_or_first(b.entries)))

\* normalize_pair_entries: the entry lists the two tables are left with.
normalize_pair_a(a) == Table(a.data, a.mode, a.dur, List1(second_or_first(a.entries)))

normalize_pair_b(a, b) ==
    LET a_idx == second_or_first(a.entries)
        found == find_matching_index(a.data, a_idx, b.data)
        b_idx == IF found < 0 THEN second_or_first(b.entries) ELSE found
    IN  Table(b.data, b.mode, b.dur, List1(b_idx))

\* normalize_single_entry
normalize_single_entry(t) ==
    LET es == IF Len0(t.entries) = 0 THEN List1(0) ELSE t.entries
    IN  Table(t.data, t.mode, t.dur, List1(second_or_first(es)))

\* gen_posture_global_rotation(axis, max_deg, steps): world frames.
gen_posture_global_rotation(g, axis, max_deg, steps) ==
    LET base == [leg \in Legs |-> <<g.home_x[leg], g.home_y[leg], g.home_z[leg]>>]
    IN  [i \in 0..(steps - 1) |->
            LET ang == MulT(max_deg, SinDeg(RoundDiv(2 * HalfTurn * i, steps)))
            IN  [leg \in Legs |->
                    CASE axis = "x" -> rot_point_x(base[leg], ang)
                      [] axis = "y" -> rot_point_y(base[leg], ang)
                      [] axis = "z" -> rot_point_z(base[leg], ang)]]

\* apply_twist of gen_posture_twist: Rx(raise) Rz(z) Rx(x) p
apply_twist(p, z_deg, x_deg, max_deg) ==
    LET raise_deg == 3000
        p1 == rot_point_x(p, x_deg)
        p2 == rot_point_z(p1, z_deg)
        ramp_deg == IF max_deg > 0 THEN MulDiv(raise_deg, Abs(z_deg), max_deg) ELSE 0
    IN  rot_point_x(p2, ramp_deg)

\* gen_posture_twist(max_deg, steps): four linear segments of steps / 4 frames.
gen_posture_twist(g, max_deg, steps) ==
    LET base == [leg \in Legs |-> <<g.home_x[leg], g.home_y[leg], g.home_z[leg]>>]
        quarter == steps \div 4
        max_x_deg == MulDiv(max_deg, 12, 20)
        step_z_deg == max_deg \div quarter
        step_x_deg == max_x_deg \div quarter
    IN  [f \in 0..(4 * quarter - 1) |->
            LET seg == f \div quarter
                i == f % quarter
                z == CASE seg = 0 -> i * step_z_deg
                       [] seg = 1 -> (quarter - i) * step_z_deg
                       [] seg = 2 -> -i * step_z_deg
                       [] seg = 3 -> (-quarter + i) * step_z_deg
                x == IF seg \in {0, 2} THEN i * step_x_deg ELSE (quarter - i) * step_x_deg
            IN  [leg \in Legs |-> apply_twist(base[leg], z, x, max_deg)]]

(***************************************************************************)
(* The program state.                                                      *)
(***************************************************************************)
VARIABLES
    pc,          \* position of the run
    robot,       \* args.robot
    cfgFile,     \* firmware/include/config.h as the loader finds it
    gait,        \* the QuadModel's home positions and its QuadGait's fields
    gi,          \* index into gait_defs of the loop of generate_all_gaits
    results,     \* the results dict of generate_all_gaits: name -> table
    order,       \* the insertion order of its keys
    loc,         \* the locals of the loop body
    exc,         \* the exception in flight, "none" without one
    faults,      \* asynchronous exceptions delivered so far
    calls,       \* invocations of generate_all_gaits so far
    prevResults, \* results and key order of the previous completed invocation
    prevOrder,
    outFile,     \* the output file: "absent", "open" or "closed"
    written,     \* the table bodies and accessors written to it, in order
    exitCode,    \* the process's exit status, -1 while it runs
    outDir,      \* the output directory: "absent" or "present"
    hexPaths,    \* run_hexapod: the names of the collected scripts, sorted
    vk,          \* index in hexPaths of the path being verified
    path,        \* verify_path: the (mode, frame count) of params
    vi,          \* verify_path: the frame index i
    vj,          \* verify_path: the leg index j
    all_ok,      \* verify_path: all_ok
    log,         \* verify_path: the (i, j) of each "failed" line printed
    examined,    \* history: calls of _verify_points in this verify_path
    outCells,    \* history: the (i, j) whose IK angles left their limits
    verified,    \* run_hexapod: the list `verified`, one 1 per failed path
    verdicts,    \* history: the value each verify_path call returned
    apiResult,   \* the result of a direct gen_path call
    apiEntries,  \* the result of the entry selection applied to a trajectory
    apiPair,     \* the result of normalize_pair_entries applied to two tables
    apiBody,     \* the results of the generate_c_body functions applied to one table
    pathDir,     \* the resolved --pathDir: "absent" or "present"
    outDir0,     \* the output directory as the run found it
    emitted,     \* run_quad: the text of each table body written, by table name
    cfg,         \* the table _load_firmware_config last returned
    console      \* the warnings printed by the loader, in order

hexVars == <<hexPaths, vk, path, vi, vj, all_ok, log, examined, outCells,
             verified, verdicts>>

apiVars == <<apiResult, apiEntries, apiPair, apiBody>>

envVars == <<pathDir, outDir0, emitted, cfg, console>>

vars == <<pc, robot, cfgFile, gait, gi, results, order, loc, exc, faults, calls,
          prevResults, prevOrder, outFile, written, exitCode, outDir,
          hexVars, apiVars, envVars>>

\* Bounds of the model.
MaxInvocations == 2
MaxFaults == 1

EmptyList == [i \in {} |-> 0]

NoTables == [k \in {} |-> 0]

NoGait == [home_x |-> [l \in Legs |-> 0], home_y |-> [l \in Legs |-> 0],
           home_z |-> [l \in Legs |-> 0],
           amplitudeX |-> 0, amplitudeZ |-> 0, frame_time_ms |-> 0]

NoLocals ==
    [base_name |-> "", gait_mode |-> -1, n |-> 0, dur |-> 0, data_fwd |-> EmptyList,
     entries |-> EmptyList, orig_amp_x |-> 0, orig_amp_z |-> 0,
     frames_fast |-> EmptyList, data_bwd |-> EmptyList, data_sl |-> EmptyList,
     entries_sl |-> EmptyList]

\* The config.h files the loader is run on: unreadable, without any of the
\* constants, and with two of them.
ConfigFiles ==
    {[readable |-> FALSE, defs |-> [k \in {} |-> 0]],
     [readable |-> TRUE, defs |-> [k \in {} |-> 0]],
     [readable |-> TRUE,
      defs |-> [k \in {"kQuadLegMountOtherX", "kQuadLegMountOtherY"} |->
                  IF k = "kQuadLegMountOtherX" THEN 30000000 ELSE 40000000]]}

Key(base_name, variant) == <<base_name, variant>>

\* results[key] = table, keeping the key's place when it is already there.
Put(r, key, table) ==
    [k \in DOMAIN r \cup {key} |-> IF k = key THEN table ELSE r[k]]

PutOrder(o, r, key) == IF key \in DOMAIN r THEN o ELSE Append(o, key)

NoPath == [name |-> "", mode |-> "", n |-> 0, caller |-> ""]

NoConfig == [k \in {} |-> 0]

UnreadableConfig == [readable |-> FALSE, defs |-> [k \in {} |-> 0]]

Init ==
    /\ pc \in {"main", "api_gen_path", "api_verify_path", "api_entries", "api_normalize",
              "api_body"}
    /\ robot \in {"quad", "hexapod", "biped"}
    /\ cfgFile \in ConfigFiles
    /\ pc # "main" => robot = "quad"
    /\ (robot # "quad" \/ pc \in {"api_verify_path", "api_entries", "api_normalize", "api_body"})
          => cfgFile = UnreadableConfig
    /\ pathDir \in {"absent", "present"}
    /\ robot # "hexapod" => pathDir = "present"
    /\ cfg = NoConfig
    /\ console = << >>
    /\ gait = NoGait
    /\ gi = 0
    /\ results = NoTables
    /\ order = << >>
    /\ loc = NoLocals
    /\ exc = "none"
    /\ faults = 0
    /\ calls = 0
    /\ prevResults = NoTables
    /\ prevOrder = << >>
    /\ outFile = "absent"
    /\ written = << >>
    /\ exitCode = -1
    /\ outDir \in {"absent", "present"}
    /\ outDir0 = outDir
    /\ pc \in {"api_entries", "api_normalize", "api_body"} => outDir = "present"
    /\ hexPaths = << >>
    /\ vk = 0
    /\ path = NoPath
    /\ vi = 0
    /\ vj = 0
    /\ all_ok = TRUE
    /\ log = << >>
    /\ examined = 0
    /\ outCells = << >>
    /\ verified = << >>
    /\ verdicts = << >>
    /\ apiResult = [called |-> FALSE]
    /\ apiEntries = [called |-> FALSE]
    /\ apiPair = [called |-> FALSE]
    /\ apiBody = [called |-> FALSE]
    /\ emitted = NoTables

(***************************************************************************)
(* main and run_quad (path_tool_cli.py).                                   *)
(***************************************************************************)
\* build_arg_parser, line 18: choices of --robot.
robot_choices == {"hexapod", "quad"}

\* The status parse_args exits with on an invalid choice (parser.error).
ARGPARSE_ERROR_STATUS == 2

\* An ensure_out_dir that leaves a missing directory missing.
ensure_out_dir_checks_only(dir) == dir

\* ensure_out_dir, lines 47-48: os.makedirs(..., exist_ok=True).
ensure_out_dir(dir) == "present"

\* main, lines 102-114: parse_args, ensure_out_dir, then dispatch on
\* args.robot.
Main ==
    /\ pc = "main"
    /\ IF robot \notin robot_choices
       THEN /\ exitCode' = ARGPARSE_ERROR_STATUS
            /\ outDir' = outDir
            /\ pc' = "exit"
       ELSE /\ exitCode' = exitCode
            /\ outDir' = ensure_out_dir(outDir)
            /\ pc' = IF robot = "quad" THEN "quad_new" ELSE "hex_collect"
    /\ UNCHANGED <<robot, cfgFile, gait, gi, results, order, loc, exc, faults, calls,
                   prevResults, prevOrder, outFile, written,
                   hexVars, apiVars, envVars>>

\* run_quad, line 85: model = QuadModel()
NewQuadModel ==
    /\ pc = "quad_new"
    /\ gait' = QuadModelInit(cfgFile)
    /\ cfg' = load_firmware_config(cfgFile)
    /\ console' = console \o load_warnings(cfgFile)
    /\ pc' = "gen_call"
    /\ UNCHANGED <<robot, cfgFile, gi, results, order, loc, exc, faults, calls,
                   prevResults, prevOrder, outFile, written, exitCode,
                   outDir, hexVars, apiVars, pathDir, outDir0, emitted>>

\* generate_all_gaits, lines 108-123: a fresh results dict.
GenerateAllGaits ==
    /\ pc = "gen_call"
    /\ results' = NoTables
    /\ order' = << >>
    /\ gi' = 0
    /\ loc' = NoLocals
    /\ calls' = calls + 1
    /\ pc' = "forward"
    /\ UNCHANGED <<robot, cfgFile, gait, exc, faults, prevResults, prevOrder,
                   outFile, written, exitCode,
                   outDir, hexVars, apiVars, envVars>>

\* Lines 252-270 and 354: the forward trajectory of gait gi and its entries.
GaitForward ==
    /\ pc = "forward"
    /\ LET def == gait_defs[gi]
           frames_fwd == gen_path(gait, def.gait_mode, MOVE_FORWARD, 0).path
           data_fwd == generate_shift_data_from_world(gait, frames_fwd)
           n == Len0(frames_fwd)
           entries == compute_entries(data_fwd[0], n, gait_stages(def.gait_mode))
           key == Key(def.base_name, "forward")
       IN  /\ loc' = [NoLocals EXCEPT !.base_name = def.base_name,
                                      !.gait_mode = def.gait_mode,
                                      !.n = n,
                                      !.dur = gait.frame_time_ms,
                                      !.data_fwd = data_fwd,
                                      !.entries = entries]
           /\ results' = Put(results, key,
                             Table(data_fwd, "shift_quad", gait.frame_time_ms, entries))
           /\ order' = PutOrder(order, results, key)
    /\ pc' = "fast_scale"
    /\ UNCHANGED <<robot, cfgFile, gait, gi, exc, faults, calls, prevResults, prevOrder,
                   outFile, written, exitCode,
                   outDir, hexVars, apiVars, envVars>>

\* Lines 358-362: save the amplitudes and scale them for forwardfast.
FastScale ==
    /\ pc = "fast_scale"
    /\ loc' = [loc EXCEPT !.orig_amp_x = gait.amplitudeX, !.orig_amp_z = gait.amplitudeZ]
    /\ gait' = [gait EXCEPT !.amplitudeX = Scale(gait.amplitudeX, 16, 10),
                            !.amplitudeZ = Scale(gait.amplitudeZ, 6, 10)]
    /\ pc' = "fast_gen"
    /\ UNCHANGED <<robot, cfgFile, gi, results, order, exc, faults, calls,
                   prevResults, prevOrder, outFile, written, exitCode,
                   outDir, hexVars, apiVars, envVars>>

\* Line 363: gen_path with the scaled amplitudes returns the fast frames, or
\* an asynchronous exception surfaces inside the try body.
FastGenPath ==
    /\ pc = "fast_gen"
    /\ \/ /\ loc' = [loc EXCEPT !.frames_fast =
                        gen_path(gait, loc.gait_mode, MOVE_FORWARD, 0).path]
          /\ UNCHANGED <<exc, faults>>
       \/ /\ faults < MaxFaults
          /\ exc' = "KeyboardInterrupt"
          /\ faults' = faults + 1
          /\ UNCHANGED loc
    /\ pc' = "fast_finally"
    /\ UNCHANGED <<robot, cfgFile, gait, gi, results, order, calls,
                   prevResults, prevOrder, outFile, written, exitCode,
                   outDir, hexVars, apiVars, envVars>>

\* A finally clause that restores the stride amplitude only.
restore_stride_only(g, orig_amp_x, orig_amp_z) ==
    [g EXCEPT !.amplitudeX = orig_amp_x]

\* A finally clause that restores the lift amplitude only.
restore_lift_only(g, orig_amp_x, orig_amp_z) ==
    [g EXCEPT !.amplitudeZ = orig_amp_z]

\* The amplitudes the finally clause of lines 364-366 leaves in the gait.
restore_amplitudes(g, orig_amp_x, orig_amp_z) ==
    [g EXCEPT !.amplitudeX = orig_amp_x, !.amplitudeZ = orig_amp_z]

\* Lines 364-366: the finally clause; a pending exception then leaves
\* generate_all_gaits.
FastFinally ==
    /\ pc = "fast_finally"
    /\ gait' = restore_amplitudes(gait, loc.orig_amp_x, loc.orig_amp_z)
    /\ pc' = IF exc = "none" THEN "fast_store" ELSE "raised"
    /\ UNCHANGED <<robot, cfgFile, gi, results, order, loc, exc, faults, calls,
                   prevResults, prevOrder, outFile, written, exitCode,
                   outDir, hexVars, apiVars, envVars>>

\* Lines 368-375: the forwardfast table.
FastStore ==
    /\ pc = "fast_store"
    /\ LET data_fast == generate_shift_data_from_world(gait, loc.frames_fast)
           entries_fast == compute_entries_fast(data_fast[0], Len0(loc.frames_fast))
           key == Key(loc.base_name, "forwardfast")
       IN  /\ results' = Put(results, key,
                             Table(data_fast, "shift_quad", loc.dur, entries_fast))
           /\ order' = PutOrder(order, results, key)
    /\ pc' = "backward"
    /\ UNCHANGED <<robot, cfgFile, gait, gi, loc, exc, faults, calls,
                   prevResults, prevOrder, outFile, written, exitCode,
                   outDir, hexVars, apiVars, envVars>>

\* Lines 377-388: the backward table.
GaitBackward ==
    /\ pc = "backward"
    /\ LET data_bwd == backward_data(loc.gait_mode, loc.data_fwd, loc.n)
           entries_bwd == backward_entries(loc.gait_mode, data_bwd, loc.entries, loc.n)
           key == Key(loc.base_name, "backward")
       IN  /\ loc' = [loc EXCEPT !.data_bwd = data_bwd]
           /\ results' = Put(results, key, Table(data_bwd, "shift_quad", loc.dur, entries_bwd))
           /\ order' = PutOrder(order, results, key)
    /\ pc' = "shiftleft"
    /\ UNCHANGED <<robot, cfgFile, gait, gi, exc, faults, calls, prevResults, prevOrder,
                   outFile, written, exitCode,
                   outDir, hexVars, apiVars, envVars>>

\* Lines 390-403: the shiftleft table.
GaitShiftLeft ==
    /\ pc = "shiftleft"
    /\ LET data_sl == shiftleft_data(loc.gait_mode, loc.data_fwd, loc.n)
           entries_sl == shiftleft_entries(loc.gait_mode, data_sl, loc.entries, loc.n)
           key == Key(loc.base_name, "shiftleft")
       IN  /\ loc' = [loc EXCEPT !.data_sl = data_sl, !.entries_sl = entries_sl]
           /\ results' = Put(results, key, Table(data_sl, "shift_quad", loc.dur, entries_sl))
           /\ order' = PutOrder(order, results, key)
    /\ pc' = "shiftright"
    /\ UNCHANGED <<robot, cfgFile, gait, gi, exc, faults, calls, prevResults, prevOrder,
                   outFile, written, exitCode,
                   outDir, hexVars, apiVars, envVars>>

\* Lines 404-420: the shiftright table.
GaitShiftRight ==
    /\ pc = "shiftright"
    /\ LET data_sr == shiftright_data(loc.gait_mode, loc.data_fwd, loc.data_sl, loc.n)
           entries_sr == shiftright_entries(loc.gait_mode, data_sr, loc.entries,
                                            loc.entries_sl, loc.n)
           key == Key(loc.base_name, "shiftright")
       IN  /\ results' = Put(results, key, Table(data_sr, "shift_quad", loc.dur, entries_sr))
           /\ order' = PutOrder(order, results, key)
    /\ pc' = "turnleft"
    /\ UNCHANGED <<robot, cfgFile, gait, gi, loc, exc, faults, calls, prevResults, prevOrder,
                   outFile, written, exitCode,
                   outDir, hexVars, apiVars, envVars>>

\* Lines 422-440: the turnleft table.
GaitTurnLeft ==
    /\ pc = "turnleft"
    /\ LET key == Key(loc.base_name, "turnleft")
       IN  /\ results' = Put(results, key,
                             Table(turnleft_data(gait, loc.data_fwd, loc.n),
                                   "shift_quad", loc.dur, loc.entries))
           /\ order' = PutOrder(order, results, key)
    /\ pc' = "turnright"
    /\ UNCHANGED <<robot, cfgFile, gait, gi, loc, exc, faults, calls, prevResults, prevOrder,
                   outFile, written, exitCode,
                   outDir, hexVars, apiVars, envVars>>

\* Lines 441-452: the turnright table.
GaitTurnRight ==
    /\ pc = "turnright"
    /\ LET tl == results[Key(loc.base_name, "turnleft")]
           data_tr == turnright_data(gait, loc.gait_mode, loc.data_bwd, tl.data, loc.n)
           entries_tr == turnright_entries(loc.gait_mode, data_tr, loc.entries,
                                           tl.entries, loc.n)
           key == Key(loc.base_name, "turnright")
       IN  /\ results' = Put(results, key, Table(data_tr, "shift_quad", loc.dur, entries_tr))
           /\ order' = PutOrder(order, results, key)
    /\ pc' = "norm_forward"
    /\ UNCHANGED <<robot, cfgFile, gait, gi, loc, exc, faults, calls, prevResults, prevOrder,
                   outFile, written, exitCode,
                   outDir, hexVars, apiVars, envVars>>

\* normalize_pair_entries(a_key, b_key), lines 460-471, at one of its calls.
NormalizePairEntries(at, a_variant, b_variant, next) ==
    /\ pc = at
    /\ LET a_key == Key(loc.base_name, a_variant)
           b_key == Key(loc.base_name, b_variant)
           a == results[a_key]
           b == results[b_key]
       IN  results' = Put(Put(results, a_key, normalize_pair_a(a)),
                          b_key, normalize_pair_b(a, b))
    /\ pc' = next
    /\ UNCHANGED <<robot, cfgFile, gait, gi, order, loc, exc, faults, calls,
                   prevResults, prevOrder, outFile, written, exitCode,
                   outDir, hexVars, apiVars, envVars>>

\* Lines 481-483.
NormalizeForwardBackward ==
    NormalizePairEntries("norm_forward", "forward", "backward", "norm_turn")

NormalizeTurn ==
    NormalizePairEntries("norm_turn", "turnleft", "turnright", "norm_shift")

NormalizeShift ==
    NormalizePairEntries("norm_shift", "shiftleft", "shiftright", "norm_fast")

\* Line 484, and the loop of line 252 going on to the next gait.
NormalizeFast ==
    /\ pc = "norm_fast"
    /\ LET key == Key(loc.base_name, "forwardfast")
       IN  results' = Put(results, key, normalize_single_entry(results[key]))
    /\ IF gi + 1 < Len0(gait_defs)
       THEN gi' = gi + 1 /\ pc' = "forward"
       ELSE gi' = gi /\ pc' = "postures"
    /\ UNCHANGED <<robot, cfgFile, gait, order, loc, exc, faults, calls,
                   prevResults, prevOrder, outFile, written, exitCode,
                   outDir, hexVars, apiVars, envVars>>

\* The four posture tables of lines 488-496, in the order they are stored.
posture_tables(g) ==
    <<[key |-> Key("quad", "rotatex"),
       table |-> Table(generate_shift_data_from_world(
                           g, gen_posture_global_rotation(g, "x", 15000, 20)),
                       "shift_quad", 50, List1(0))],
      [key |-> Key("quad", "rotatey"),
       table |-> Table(generate_shift_data_from_world(
                           g, gen_posture_global_rotation(g, "y", 15000, 20)),
                       "shift_quad", 50, List1(0))],
      [key |-> Key("quad", "rotatez"),
       table |-> Table(generate_shift_data_from_world(
                           g, gen_posture_global_rotation(g, "z", 15000, 20)),
                       "shift_quad", 50, List1(0))],
      [key |-> Key("quad", "twist"),
       table |-> Table(generate_shift_data_from_world(g, gen_posture_twist(g, 10000, 20)),
                       "shift_quad", 50, List2(0, (20 \div 4) * 2))]>>

RECURSIVE PutAll(_, _, _)
PutAll(r, items, k) ==
    IF k > Len(items) THEN r
    ELSE PutAll(Put(r, items[k].key, items[k].table), items, k + 1)

RECURSIVE PutOrderAll(_, _, _, _)
PutOrderAll(o, r, items, k) ==
    IF k > Len(items) THEN o
    ELSE PutOrderAll(PutOrder(o, r, items[k].key),
                     Put(r, items[k].key, items[k].table), items, k + 1)

\* Lines 486-498: the posture tables, then return results.
Postures ==
    /\ pc = "postures"
    /\ results' = PutAll(results, posture_tables(gait), 1)
    /\ order' = PutOrderAll(order, results, posture_tables(gait), 1)
    /\ pc' = "returned"
    /\ UNCHANGED <<robot, cfgFile, gait, gi, loc, exc, faults, calls,
                   prevResults, prevOrder, outFile, written, exitCode,
                   outDir, hexVars, apiVars, envVars>>

\* A caller invoking generate_all_gaits again, on the same QuadModel or on a
\* fresh one, after an invocation that returned or raised.
Reinvoke ==
    /\ robot = "quad"
    /\ pc \in {"returned", "raised"}
    /\ calls < MaxInvocations
    /\ \E fresh \in BOOLEAN :
          /\ gait' = IF fresh THEN QuadModelInit(cfgFile) ELSE gait
          /\ cfg' = IF fresh THEN load_firmware_config(cfgFile) ELSE cfg
          /\ console' = IF fresh THEN console \o load_warnings(cfgFile) ELSE console
    /\ IF pc = "returned"
       THEN prevResults' = results /\ prevOrder' = order
       ELSE UNCHANGED <<prevResults, prevOrder>>
    /\ exc' = "none"
    /\ pc' = "gen_call"
    /\ UNCHANGED <<robot, cfgFile, gi, results, order, loc, faults, calls,
                   outFile, written, exitCode,
                   outDir, hexVars, apiVars, pathDir, outDir0, emitted>>

\* "{:.2f}".format(v) of a length in micro-units: the number of hundredths
\* printed.
format_2f(v) == RoundDiv(v, Micro \div 100)

\* A table body whose descriptor carries the number of legs as its length.
quad_body_countless(path_name, t) ==
    [raised |-> "none", paths |-> <<"QuadLocations", path_name>>,
     rows |-> [i \in 0..(Len0(t.data[0]) - 1) |->
                 [leg \in Legs |-> <<format_2f(t.data[leg][i][1]),
                                     format_2f(t.data[leg][i][2]),
                                     format_2f(t.data[leg][i][3])>>]],
     entries |-> t.entries,
     table |-> [type |-> "QuadMovementTable", name |-> path_name,
                count |-> LEG_COUNT, dur |-> t.dur, ecount |-> Len0(t.entries)]]

\* QuadModel.generate_c_body: the text of one table as its lines: the head
\* of the paths array, one row per frame with the values of each leg as
\* printed, the indices of the entries array, and the fields of the table
\* descriptor; RuntimeError for a mode other than shift_quad.
quad_generate_c_body(path_name, t) ==
    IF t.mode # "shift_quad" THEN [raised |-> "RuntimeError"]
    ELSE LET count == Len0(t.data[0])
         IN  [raised |-> "none", paths |-> <<"QuadLocations", path_name>>,
              rows |-> [i \in 0..(count - 1) |->
                          [leg \in Legs |-> <<format_2f(t.data[leg][i][1]),
                                              format_2f(t.data[leg][i][2]),
                                              format_2f(t.data[leg][i][3])>>]],
              entries |-> t.entries,
              table |-> [type |-> "QuadMovementTable", name |-> path_name,
                         count |-> count, dur |-> t.dur, ecount |-> Len0(t.entries)]]

\* run_quad, lines 88-99: every table body, then every accessor, and main
\* returns 0.
WriteQuad ==
    /\ pc = "returned"
    /\ outFile' = "closed"
    /\ written' = [k \in 1..(2 * Len(order)) |->
                     IF k <= Len(order) THEN <<"body", order[k]>>
                     ELSE <<"def", order[k - Len(order)]>>]
    /\ emitted' = [name \in DOMAIN results |-> quad_generate_c_body(name, results[name])]
    /\ exitCode' = 0
    /\ pc' = "exit"
    /\ UNCHANGED <<robot, cfgFile, gait, gi, results, order, loc, exc, faults, calls,
                   prevResults, prevOrder,
                   outDir, hexVars, apiVars, pathDir, outDir0, cfg, console>>

\* An exception that leaves run_quad or run_hexapod is not caught by main:
\* the interpreter prints the traceback and exits with status 1.
Uncaught ==
    /\ pc = "raised"
    /\ exitCode' = 1
    /\ pc' = "exit"
    /\ UNCHANGED <<robot, cfgFile, gait, gi, results, order, loc, exc, faults, calls,
                   prevResults, prevOrder, outFile, written,
                   outDir, hexVars, apiVars, envVars>>

(***************************************************************************)
(* HexapodModel (models/hexapod.py) and run_hexapod (path_tool_cli.py).    *)
(* config.py and kinematics.py are outside the sources: the joint limits   *)
(* are a constant table and kinematics.ik an unconstrained pure function,  *)
(* whose answer for the foot point of a (frame, leg) is an input.          *)
(***************************************************************************)
HEX_LEG_COUNT == 6

\* config.angleLimitation[i] = (min, max) of joint i, in degrees.
angleLimitation == [i \in 0..2 |-> CASE i = 0 -> <<-45, 45>>
                                     [] i = 1 -> <<-45, 75>>
                                     [] i = 2 -> <<-60, 60>>]

\* The answers of kinematics.ik the verifier is tried on: every joint just
\* below its minimum, on it, on its maximum or just above it.
IkAnswers ==
    {[i \in 0..2 |-> a[i + 1]] :
        a \in ({angleLimitation[0][1] - 1, angleLimitation[0][1],
                angleLimitation[0][2], angleLimitation[0][2] + 1}
               \X {angleLimitation[1][1] - 1, angleLimitation[1][1],
                   angleLimitation[1][2], angleLimitation[1][2] + 1}
               \X {angleLimitation[2][1] - 1, angleLimitation[2][1],
                   angleLimitation[2][2], angleLimitation[2][2] + 1})}

\* HexapodModel._verify_points on the angles ik returned: (ok, failed), the
\* loop over enumerate(angles) from joint i on.
\* A verifier that also rejects an angle equal to a limit.
RECURSIVE VerifyPointsClosed(_, _, _)
VerifyPointsClosed(angles, i, acc) ==
    IF i >= Len0(angles) THEN acc
    ELSE IF angles[i] <= angleLimitation[i][1] \/ angles[i] >= angleLimitation[i][2]
         THEN VerifyPointsClosed(angles, i + 1,
                                 [ok |-> FALSE, failed |-> Append(acc.failed, <<i, angles[i]>>)])
         ELSE VerifyPointsClosed(angles, i + 1, acc)

RECURSIVE VerifyPointsFrom(_, _, _)
VerifyPointsFrom(angles, i, acc) ==
    IF i >= Len0(angles) THEN acc
    ELSE IF angles[i] < angleLimitation[i][1] \/ angles[i] > angleLimitation[i][2]
         THEN VerifyPointsFrom(angles, i + 1,
                               [ok |-> FALSE, failed |-> Append(acc.failed, <<i, angles[i]>>)])
         ELSE VerifyPointsFrom(angles, i + 1, acc)

verify_points(angles) == VerifyPointsFrom(angles, 0, [ok |-> TRUE, failed |-> << >>])

\* The scripted paths of the path directory: mode, frame count and, for each
\* (frame, leg), the angles ik finds for the foot point.
WithinLimits == [i \in 0..2 |-> 0]

OnLimits == [i \in 0..2 |-> IF i = 1 THEN angleLimitation[i][2] ELSE angleLimitation[i][1]]

ScriptCatalogue ==
    [name \in {"climb", "rotatex", "stretch", "tilt", "wave"} |->
        CASE name = "climb" ->
                [mode |-> "shift", n |-> 2,
                 ik |-> [c \in (0..1) \X (0..5) |->
                            IF c[2] = 3 THEN OnLimits ELSE WithinLimits]]
          [] name = "rotatex" ->
                [mode |-> "matrix", n |-> 2,
                 ik |-> [c \in (0..1) \X (0..5) |-> WithinLimits]]
          [] name = "stretch" ->
                [mode |-> "shift", n |-> 2,
                 ik |-> [c \in (0..1) \X (0..5) |->
                            IF c = <<0, 2>>
                            THEN [i \in 0..2 |-> IF i = 0 THEN -46 ELSE 0]
                            ELSE IF c = <<1, 5>>
                            THEN [i \in 0..2 |-> IF i = 0 THEN 0 ELSE 90]
                            ELSE WithinLimits]]
          [] name = "tilt" ->
                [mode |-> "matrix", n |-> 1,
                 ik |-> [c \in (0..0) \X (0..5) |->
                            IF c[2] = 0
                            THEN [i \in 0..2 |-> IF i = 2 THEN 61 ELSE 0]
                            ELSE OnLimits]]
          [] name = "wave" ->
                [mode |-> "spline", n |-> 1,
                 ik |-> [c \in (0..0) \X (0..5) |-> WithinLimits]]]

\* Bounds of the paths verify_path is called on directly.
MaxFrames == 2
MaxOutCells == 2

\* The listings of the path directory the run is tried on, each sorted by name.
ScriptListings ==
    {<< >>, <<"climb">>, <<"rotatex">>, <<"stretch">>, <<"tilt">>,
     <<"climb", "rotatex">>, <<"climb", "stretch">>, <<"climb", "tilt">>,
     <<"rotatex", "stretch">>, <<"stretch", "tilt">>,
     <<"climb", "rotatex", "stretch">>, <<"climb", "stretch", "tilt">>,
     <<"climb", "rotatex", "stretch", "tilt">>,
     <<"wave">>, <<"climb", "wave">>, <<"climb", "rotatex", "wave">>,
     <<"stretch", "wave">>}

\* run_hexapod, lines 53-62: collect the scripts of the path directory in
\* sorted order and call every generator; os.listdir of collect_path raises
\* FileNotFoundError for a directory that does not exist.
HexCollect ==
    /\ pc = "hex_collect"
    /\ IF pathDir = "absent"
       THEN /\ hexPaths' = hexPaths
            /\ exc' = "FileNotFoundError"
            /\ pc' = "raised"
       ELSE /\ hexPaths' \in ScriptListings
            /\ exc' = exc
            /\ pc' = "hex_verify_next"
    /\ vk' = 1
    /\ verified' = << >>
    /\ verdicts' = << >>
    /\ UNCHANGED <<robot, cfgFile, gait, gi, results, order, loc, faults, calls,
                   prevResults, prevOrder, outFile, written, exitCode, outDir,
                   path, vi, vj, all_ok, log, examined, outCells, apiVars, envVars>>

\* An iteration that stops after the first path.
remaining_first_only(paths, k) == IF k > 1 THEN << >> ELSE paths

\* Line 64: the paths results.items() has yet to hand to verify_path when
\* k - 1 of them have been verified.
remaining_paths(paths, k) == SubSeq(paths, k, Len(paths))

\* Line 64: the comprehension calls verify_path on the next path, or ends.
\* verify_path, lines 46-49.
HexVerifyNext ==
    /\ pc = "hex_verify_next"
    /\ IF remaining_paths(hexPaths, vk) # << >>
       THEN /\ path' = [name |-> hexPaths[vk],
                        mode |-> ScriptCatalogue[hexPaths[vk]].mode,
                        n |-> ScriptCatalogue[hexPaths[vk]].n,
                        caller |-> "run_hexapod"]
            /\ pc' = "verify_loop"
       ELSE /\ path' = path
            /\ pc' = "hex_check"
    /\ vi' = 0
    /\ vj' = 0
    /\ all_ok' = TRUE
    /\ log' = << >>
    /\ examined' = 0
    /\ outCells' = << >>
    /\ UNCHANGED <<robot, cfgFile, gait, gi, results, order, loc, exc, faults, calls,
                   prevResults, prevOrder, outFile, written, exitCode, outDir,
                   hexPaths, vk, verified, verdicts, apiVars, envVars>>

\* verify_path called directly on a path of either mode and of up to
\* MaxFrames frames.
ApiVerifyPath ==
    /\ pc = "api_verify_path"
    /\ \E mode \in {"shift", "matrix", "spline"}, n \in 0..MaxFrames :
          path' = [name |-> "free", mode |-> mode, n |-> n, caller |-> "direct"]
    /\ vi' = 0
    /\ vj' = 0
    /\ all_ok' = TRUE
    /\ log' = << >>
    /\ examined' = 0
    /\ outCells' = << >>
    /\ pc' = "verify_loop"
    /\ UNCHANGED <<robot, cfgFile, gait, gi, results, order, loc, exc, faults, calls,
                   prevResults, prevOrder, outFile, written, exitCode, outDir,
                   hexPaths, vk, verified, verdicts, apiVars, envVars>>

\* Some joint angle lies strictly outside its configured interval.
OutOfRange(angles) ==
    \E k \in 0..2 : angles[k] < angleLimitation[k][1] \/ angles[k] > angleLimitation[k][2]

\* The angles kinematics.ik may return for leg j of frame i of path p.
IkAnswersFor(p, i, j, out_so_far) ==
    IF p.caller = "run_hexapod" THEN {ScriptCatalogue[p.name].ik[<<i, j>>]}
    ELSE {a \in IkAnswers : OutOfRange(a) => out_so_far < MaxOutCells}

\* Lines 63-67 (shift) and 78-82 (matrix): the state (all_ok, log) after the
\* point of frame i, leg j has been verified.
verify_cell(st, i, j, angles) ==
    LET r == verify_points(angles)
    IN  IF ~r.ok
        THEN [all_ok |-> FALSE, log |-> Append(st.log, <<i, j>>)]
        ELSE st

\* One pass of the inner loop of verify_path, lines 54-67 and 71-82.
VerifyPoint ==
    /\ pc = "verify_loop"
    /\ path.mode \in {"shift", "matrix"}
    /\ vi < path.n
    /\ \E angles \in IkAnswersFor(path, vi, vj, Len(outCells)) :
          LET st == verify_cell([all_ok |-> all_ok, log |-> log], vi, vj, angles)
          IN  /\ all_ok' = st.all_ok
              /\ log' = st.log
              /\ outCells' =
                    IF OutOfRange(angles)
                    THEN Append(outCells, <<vi, vj>>)
                    ELSE outCells
    /\ examined' = examined + 1
    /\ IF vj + 1 < HEX_LEG_COUNT
       THEN vj' = vj + 1 /\ vi' = vi
       ELSE vj' = 0 /\ vi' = vi + 1
    /\ UNCHANGED <<pc, robot, cfgFile, gait, gi, results, order, loc, exc, faults, calls,
                   prevResults, prevOrder, outFile, written, exitCode, outDir,
                   hexPaths, vk, path, verified, verdicts, apiVars, envVars>>

\* Line 84: return all_ok; in run_hexapod the comprehension of line 64 keeps
\* a 1 for a path that failed and goes on to the next path.
VerifyReturn ==
    /\ pc = "verify_loop"
    /\ ~(path.mode \in {"shift", "matrix"} /\ vi < path.n)
    /\ verdicts' = Append(verdicts, all_ok)
    /\ IF path.caller = "run_hexapod"
       THEN /\ verified' = IF ~all_ok THEN Append(verified, 1) ELSE verified
            /\ vk' = vk + 1
            /\ pc' = "hex_verify_next"
       ELSE /\ UNCHANGED <<verified, vk>>
            /\ pc' = "api_done"
    /\ UNCHANGED <<robot, cfgFile, gait, gi, results, order, loc, exc, faults, calls,
                   prevResults, prevOrder, outFile, written, exitCode, outDir,
                   hexPaths, path, vi, vj, all_ok, log, examined, outCells, apiVars, envVars>>

\* Line 65: the run aborts when the list of failed paths is not empty.
abort_decision(failed_paths) == Len(failed_paths) > 0

\* Lines 65-67: with a failed path, print and sys.exit(1).
HexCheck ==
    /\ pc = "hex_check"
    /\ IF abort_decision(verified)
       THEN exitCode' = 1 /\ pc' = "exit"
       ELSE exitCode' = exitCode /\ pc' = "hex_write"
    /\ UNCHANGED <<robot, cfgFile, gait, gi, results, order, loc, exc, faults, calls,
                   prevResults, prevOrder, outFile, written, outDir,
                   hexVars, apiVars, envVars>>

\* generate_c_body raises RuntimeError for a mode that is neither shift nor
\* matrix (hexapod.py, lines 140-141).
body_raises(name) == ScriptCatalogue[name].mode \notin {"shift", "matrix"}

\* The bodies written before generate_c_body first raises.
RECURSIVE BodiesFrom(_, _)
BodiesFrom(paths, k) ==
    IF k > Len(paths) \/ body_raises(paths[k]) THEN << >>
    ELSE <<<<"body", paths[k]>>>> \o BodiesFrom(paths, k + 1)

\* Lines 69-80: open the output file, write every table body, then every
\* accessor; main returns 0.  An exception of generate_c_body leaves the
\* with block, which closes the file with what was written so far.
HexWrite ==
    /\ pc = "hex_write"
    /\ outFile' = "closed"
    /\ IF \E k \in 1..Len(hexPaths) : body_raises(hexPaths[k])
       THEN /\ written' = BodiesFrom(hexPaths, 1)
            /\ exc' = "RuntimeError"
            /\ exitCode' = exitCode
            /\ pc' = "raised"
       ELSE /\ written' = BodiesFrom(hexPaths, 1)
                          \o [k \in 1..Len(hexPaths) |-> <<"def", hexPaths[k]>>]
            /\ exc' = exc
            /\ exitCode' = 0
            /\ pc' = "exit"
    /\ UNCHANGED <<robot, cfgFile, gait, gi, results, order, loc, faults, calls,
                   prevResults, prevOrder, outDir, hexVars, apiVars, envVars>>

(***************************************************************************)
(* QuadGait.gen_path called directly.                                      *)
(***************************************************************************)
MOVE_OTHER == 13
GAIT_UNKNOWN == 4

ApiGenPath ==
    /\ pc = "api_gen_path"
    /\ gait' = QuadModelInit(cfgFile)
    /\ cfg' = load_firmware_config(cfgFile)
    /\ console' = console \o load_warnings(cfgFile)
    /\ \E gait_mode \in {GAIT_TROT, GAIT_WALK, GAIT_GALLOP, GAIT_CREEP, GAIT_UNKNOWN},
          move_status \in {MOVE_STANDBY, MOVE_FORWARD, MOVE_OTHER},
          gait_speed \in {0, 1} :
          apiResult' = [called |-> TRUE, gait_mode |-> gait_mode,
                        move_status |-> move_status, gait_speed |-> gait_speed,
                        ret |-> gen_path(QuadModelInit(cfgFile), gait_mode,
                                         move_status, gait_speed)]
    /\ pc' = "api_done"
    /\ UNCHANGED <<robot, cfgFile, gi, results, order, loc, exc, faults, calls,
                   prevResults, prevOrder, outFile, written, exitCode, outDir, hexVars,
                   apiEntries, apiPair, apiBody, pathDir, outDir0, emitted>>

\* The longest trajectory the entry selection is applied to on its own.
MaxEntryFrames == 4

\* Displacements <<dx, dy, dz>> of leg 0 in micro-units: on the ground, at
\* the lift threshold of 1e-6, and lifted by heights 1e-6 apart with
\* lateral offsets of either sign.
EntryVectors ==
    {<<0, 0, 0>>, <<0, 2, 1>>, <<0, 0, 5>>, <<0, -2, 5>>, <<0, 2, 6>>, <<0, -1, 6>>}

\* choose_start_index_from_fr and the two entry computations of
\* generate_all_gaits (lines 261-270 with compute_entries_for_data, and
\* lines 370-374 for forwardfast) applied to a leg-0 trajectory of n frames
\* of a gait with `stages` stages.
ApiComputeEntries ==
    /\ pc = "api_entries"
    /\ \E n \in 0..MaxEntryFrames, stages \in {2, 4, 6} :
          \E data_leg0 \in [0..(n - 1) -> EntryVectors] :
              apiEntries' = [called |-> TRUE, data_leg0 |-> data_leg0, stages |-> stages,
                             start |-> choose_start_index_from_fr(data_leg0),
                             entries |-> compute_entries(data_leg0, n, stages),
                             entries_fast |-> compute_entries_fast(data_leg0, n)]
    /\ pc' = "api_done"
    /\ UNCHANGED <<robot, cfgFile, gait, gi, results, order, loc, exc, faults, calls,
                   prevResults, prevOrder, outFile, written, exitCode, outDir, hexVars,
                   apiResult, apiPair, apiBody, envVars>>

\* The longest table normalize_pair_entries is applied to on its own.
MaxPairFrames == 2

\* Poses of the four legs, in micro-units: at home, lifted by 5 mm, and
\* 4e-5 mm off home, which pose_key rounds to the home pose.
PairPoses ==
    {[leg \in Legs |-> <<0, 0, 0>>], [leg \in Legs |-> <<0, 0, 5000000>>],
     [leg \in Legs |-> <<0, 0, 40>>]}

\* The shift_quad tables of n frames drawn from `poses`, with one entry
\* candidate or two.
PairTables(n, poses) ==
    {Table([leg \in Legs |-> [i \in 0..(n - 1) |-> f[i][leg]]], "shift_quad", 20, es) :
        f \in [0..(n - 1) -> poses], es \in {List1(0), List2(0, n - 1)}}

\* normalize_pair_entries (lines 460-471) applied to the tables a and b.
ApiNormalizePair ==
    /\ pc = "api_normalize"
    /\ \E n_a \in 1..2, n_b \in 1..MaxPairFrames :
          \E a \in PairTables(n_a, {p \in PairPoses : p[0][3] # 40}),
             b \in PairTables(n_b, PairPoses) :
              apiPair' = [called |-> TRUE, a |-> a, b |-> b,
                          a_out |-> normalize_pair_a(a),
                          b_out |-> normalize_pair_b(a, b)]
    /\ pc' = "api_done"
    /\ UNCHANGED <<robot, cfgFile, gait, gi, results, order, loc, exc, faults, calls,
                   prevResults, prevOrder, outFile, written, exitCode, outDir, hexVars,
                   apiResult, apiEntries, apiBody, envVars>>

\* len() of one 4x4 transform of a matrix-mode path (hexapod.py, line 112).
MATRIX_ROWS == 4

\* The lines generate_c_body of a HexapodModel writes for the params
\* (data, mode, dur, entries) of n frames; `count` is the length field of
\* the descriptor.  Row i is printed from frame i of data.
hex_body_text(path_name, params, count) ==
    [raised |-> "none", paths |-> <<"Locations", path_name>>,
     rows |-> [i \in 0..(params.n - 1) |-> <<params.mode, i>>],
     entries |-> params.entries,
     table |-> [type |-> "MovementTable", name |-> path_name,
                count |-> count, dur |-> params.dur,
                ecount |-> Len0(params.entries)]]

\* HexapodModel.generate_c_body of models/hexapod.py.
hex_generate_c_body(path_name, params) ==
    IF params.mode \notin {"shift", "matrix"} THEN [raised |-> "RuntimeError"]
    ELSE hex_body_text(path_name, params, params.n)

\* HexapodModel.generate_c_body of main.py: the descriptor is written with
\* len(data[0]), the frames of leg 0 in shift mode, the rows of the first
\* transform in matrix mode, and data[0] does not exist without a frame.
legacy_generate_c_body(path_name, params) ==
    IF params.mode \notin {"shift", "matrix"} THEN [raised |-> "RuntimeError"]
    ELSE IF params.mode = "shift" THEN hex_body_text(path_name, params, params.n)
    ELSE IF params.n = 0 THEN [raised |-> "IndexError"]
    ELSE hex_body_text(path_name, params, MATRIX_ROWS)

\* HexapodModel.verify_path of main.py on a script of the path directory:
\* all_ok after every (frame, leg) of a shift or matrix path was verified.
legacy_verify_path(name) ==
    LET script == ScriptCatalogue[name]
    IN  script.mode \in {"shift", "matrix"} =>
            \A i \in 0..(script.n - 1) : \A j \in 0..(HEX_LEG_COUNT - 1) :
                verify_points(script.ik[<<i, j>>]).ok

\* The params the two functions are applied to: each mode, 0..MaxFrames
\* frames, and no, one or two entries.
BodyParams ==
    {[mode |-> mode, n |-> n, dur |-> 20, entries |-> es] :
        mode \in {"shift", "matrix", "spline"}, n \in 0..MaxFrames,
        es \in {EmptyList, List1(0), List2(0, 1)}}

\* generate_c_body of both HexapodModel classes applied to the same table.
ApiGenerateBody ==
    /\ pc = "api_body"
    /\ \E params \in BodyParams :
          apiBody' = [called |-> TRUE, params |-> params,
                      text |-> hex_generate_c_body("free", params),
                      legacy_text |-> legacy_generate_c_body("free", params)]
    /\ pc' = "api_done"
    /\ UNCHANGED <<robot, cfgFile, gait, gi, results, order, loc, exc, faults, calls,
                   prevResults, prevOrder, outFile, written, exitCode, outDir, hexVars,
                   apiResult, apiEntries, apiPair, envVars>>

Next ==
    \/ Main
    \/ NewQuadModel
    \/ GenerateAllGaits
    \/ GaitForward
    \/ FastScale
    \/ FastGenPath
    \/ FastFinally
    \/ FastStore
    \/ GaitBackward
    \/ GaitShiftLeft
    \/ GaitShiftRight
    \/ GaitTurnLeft
    \/ GaitTurnRight
    \/ NormalizeForwardBackward
    \/ NormalizeTurn
    \/ NormalizeShift
    \/ NormalizeFast
    \/ Postures
    \/ Reinvoke
    \/ WriteQuad
    \/ Uncaught
    \/ HexCollect
    \/ HexVerifyNext
    \/ ApiVerifyPath
    \/ VerifyPoint
    \/ VerifyReturn
    \/ HexCheck
    \/ HexWrite
    \/ ApiGenPath
    \/ ApiComputeEntries
    \/ ApiNormalizePair
    \/ ApiGenerateBody

Spec == Init /\ [][Next]_vars

(***************************************************************************)
(* Properties of QuadModel.generate_all_gaits.                             *)
(***************************************************************************)
\* generate_all_gaits has returned its results.
Returned == robot = "quad" /\ pc = "returned"

BaseNames == {gait_defs[k].base_name : k \in DOMAIN gait_defs}

GaitVariants ==
    {"forward", "forwardfast", "backward", "shiftleft", "shiftright",
     "turnleft", "turnright"}

PairedVariants ==
    {<<"forward", "backward">>, <<"turnleft", "turnright">>,
     <<"shiftleft", "shiftright">>}

\* The pose of all four legs at the entry a table exports.
PoseAtExportedEntry(t) == pose_key(t.data, t.entries[0])

\* C1: for every gait and every pair (forward, backward), (turnleft,
\* turnright), (shiftleft, shiftright) of the returned tables, the pose at
\* the first table's exported entry, rounded to 4 decimals, equals the pose
\* at the second table's exported entry.
C1_PairedEntriesSharePose ==
    Returned =>
        \A b \in BaseNames : \A p \in PairedVariants :
            PoseAtExportedEntry(results[Key(b, p[1])])
                = PoseAtExportedEntry(results[Key(b, p[2])])

FrameCount(t) == Len0(t.data[0])

WellFormed(t) ==
    /\ DOMAIN t.data = 0..3
    /\ FrameCount(t) >= 1
    /\ \A leg \in DOMAIN t.data : DOMAIN t.data[leg] = 0..(FrameCount(t) - 1)
    /\ t.dur > 0
    /\ Len0(t.entries) >= 1
    /\ \A k \in DOMAIN t.entries : 0 <= t.entries[k] /\ t.entries[k] < FrameCount(t)

\* C2: every returned table has 4 legs of the same frame count N >= 1, a
\* duration > 0, a non-empty entry list and every entry within 0..N-1; the
\* seven tables of one gait share N and the duration.
C2_TablesWellFormed ==
    Returned =>
        /\ \A key \in DOMAIN results : WellFormed(results[key])
        /\ \A b \in BaseNames : \A v \in GaitVariants :
              /\ FrameCount(results[Key(b, v)]) = FrameCount(results[Key(b, "forward")])
              /\ results[Key(b, v)].dur = results[Key(b, "forward")].dur

\* All 28 gait tables and 4 posture tables have been returned.
C2_Witness == Returned /\ Cardinality(DOMAIN results) = 32 /\ Len(order) = 32

\* (peak index + N // 2) mod N of a table, the peak being the frame of leg
\* 0's highest lift.
HalfCycleAfterPeak(t) ==
    (choose_start_index_from_fr(t.data[0]) + FrameCount(t) \div 2) % FrameCount(t)

\* C3: each of the seven tables of every gait exports exactly one entry, and
\* for forward, turnleft, shiftleft and forwardfast it is the second
\* heuristic entry, (peak index + N // 2) mod N.
C3_SingleEntry ==
    Returned =>
        \A b \in BaseNames :
            /\ \A v \in GaitVariants : Len0(results[Key(b, v)].entries) = 1
            /\ \A v \in {"forward", "turnleft", "shiftleft", "forwardfast"} :
                  results[Key(b, v)].entries[0] = HalfCycleAfterPeak(results[Key(b, v)])

\* The walk tables are returned; their half-cycle index wraps around the
\* cycle (peak 10 of 16 frames, entry 2).
C3_Witness ==
    /\ Returned
    /\ choose_start_index_from_fr(results[Key("quad_walk", "forward")].data[0]) = 10
    /\ results[Key("quad_walk", "forward")].entries[0] = 2
    /\ results[Key("quad_walk", "forwardfast")].entries[0] = 2

\* C7: an invocation of generate_all_gaits that follows one that returned,
\* on a fresh QuadModel or on the same one, returns the same names in the
\* same order with identical frame data, durations and entry lists.
C7_Deterministic ==
    (Returned /\ prevOrder # << >>) =>
        /\ order = prevOrder
        /\ DOMAIN results = DOMAIN prevResults
        /\ \A key \in DOMAIN results : results[key] = prevResults[key]

\* A second invocation has returned after a first one that returned.
C7_Witness == Returned /\ calls = 2 /\ Len(prevOrder) = 32 /\ Len(order) = 32

\* The amplitudes of a QuadGait as constructed (quad_gait.py, lines 21-23).
ConstructedAmplitudes(g) ==
    /\ g.amplitudeX = QuadModelInit(cfgFile).amplitudeX
    /\ g.amplitudeZ = QuadModelInit(cfgFile).amplitudeZ

\* C8: once the forwardfast synthesis is over, gen_path having returned or
\* raised, amplitudeX and amplitudeZ hold the values they had before it, and
\* the forward trajectory of every gait is computed with the constructed
\* amplitudes.
C8_AmplitudesRestored ==
    /\ (robot = "quad" /\ pc \in {"fast_store", "raised"}) =>
          /\ gait.amplitudeX = loc.orig_amp_x
          /\ gait.amplitudeZ = loc.orig_amp_z
    /\ (robot = "quad"
        /\ pc \in {"gen_call", "forward", "fast_scale", "fast_store", "backward",
                   "shiftleft", "shiftright", "turnleft", "turnright", "norm_forward",
                   "norm_turn", "norm_shift", "norm_fast", "postures", "returned",
                   "raised"}) => ConstructedAmplitudes(gait)
    /\ (robot = "quad" /\ pc = "fast_scale") =>
          loc.data_fwd = generate_shift_data_from_world(
                             QuadModelInit(cfgFile),
                             gen_path(QuadModelInit(cfgFile), loc.gait_mode,
                                      MOVE_FORWARD, 0).path)

\* The synthesis of an earlier gait returned and the one of a later gait
\* raised.
C8_Witness ==
    /\ robot = "quad" /\ pc = "raised" /\ gi >= 1 /\ exc = "KeyboardInterrupt"
    /\ Key("quad_trot", "forwardfast") \in DOMAIN results

\* The front/back leg permutation {0->1, 1->0, 2->3, 3->2}.
FrontBack(leg) == CASE leg = 0 -> 1 [] leg = 1 -> 0 [] leg = 2 -> 3 [] leg = 3 -> 2

\* C9: backward has the length and the duration of forward; for trot
\* backward[L][i] is forward[L][i] with y negated, for walk, creep and gallop
\* backward[p(L)][i] is forward[L][i] with y negated, p the front/back
\* permutation.
C9_BackwardMirrorsForward ==
    Returned =>
        \A k \in DOMAIN gait_defs :
            LET f == results[Key(gait_defs[k].base_name, "forward")]
                b == results[Key(gait_defs[k].base_name, "backward")]
            IN  /\ FrameCount(b) = FrameCount(f)
                /\ b.dur = f.dur
                /\ \A leg \in 0..3 : \A i \in 0..(FrameCount(f) - 1) :
                      b.data[IF gait_defs[k].gait_mode = GAIT_TROT
                             THEN leg ELSE FrontBack(leg)][i]
                          = <<f.data[leg][i][1], -f.data[leg][i][2], f.data[leg][i][3]>>

\* The tables are returned and the gallop legs are out of phase, so that the
\* permutation matters.
C9_Witness ==
    /\ Returned
    /\ results[Key("quad_gallop", "forward")].data[0][0]
          # results[Key("quad_gallop", "forward")].data[1][0]
    /\ results[Key("quad_gallop", "backward")].data[1][0][1] # 0

(***************************************************************************)
(* Properties of QuadGait.gen_path.                                        *)
(***************************************************************************)
StageCount(gait_mode) ==
    CASE gait_mode = GAIT_TROT -> 2
      [] gait_mode = GAIT_WALK -> 4
      [] gait_mode = GAIT_GALLOP -> 4
      [] gait_mode = GAIT_CREEP -> 6

\* The cycle duration of a gait at a speed setting, in ms (quad_gait.py,
\* lines 82, 114, 146 and 178).
CycleDuration(g, gait_mode, gait_speed) ==
    CASE gait_mode = GAIT_TROT -> trot_duration(g, gait_speed)
      [] gait_mode = GAIT_WALK -> walk_duration(g, gait_speed)
      [] gait_mode = GAIT_GALLOP -> walk_duration(g, gait_speed)
      [] gait_mode = GAIT_CREEP -> creep_duration(g, gait_speed)

\* C10: for every gait mode and both speed settings the forward trajectory
\* of gen_path has numTicks * stageCount frames, with stageCount 2 for trot,
\* 4 for walk and gallop, 6 for creep and numTicks the floor of
\* cycleDuration / frameTime / stageCount.
C10_ForwardFrameCount ==
    (pc = "api_done" /\ apiResult.called /\ apiResult.move_status = MOVE_FORWARD
     /\ apiResult.gait_mode \in {GAIT_TROT, GAIT_WALK, GAIT_GALLOP, GAIT_CREEP}) =>
        LET stages == StageCount(apiResult.gait_mode)
            ticks == (CycleDuration(gait, apiResult.gait_mode, apiResult.gait_speed)
                          \div gait.frame_time_ms) \div stages
        IN  /\ apiResult.ret.raised = "none"
            /\ Len0(apiResult.ret.path) = ticks * stages

\* gen_path has returned the slow creep cycle, 12 ticks in each of 6 stages.
C10_Witness ==
    /\ pc = "api_done" /\ apiResult.called
    /\ apiResult.move_status = MOVE_FORWARD
    /\ apiResult.gait_mode = GAIT_CREEP /\ apiResult.gait_speed = 1
    /\ Len0(apiResult.ret.path) = 72

(***************************************************************************)
(* Properties of HexapodModel.verify_path and of run_hexapod.              *)
(***************************************************************************)
\* verify_path has just returned for a path of mode shift or matrix.
VerifyReturned ==
    /\ pc \in {"api_done", "hex_verify_next"}
    /\ Len(verdicts) > 0
    /\ path.mode \in {"shift", "matrix"}

\* C4: verify_path returns False iff some (frame, leg) has a joint angle
\* strictly below its minimum or strictly above its maximum; it examines
\* every frame and each of the 6 legs, and reports every violating
\* (frame, leg) exactly once and nothing else.
C4_VerifyPath ==
    VerifyReturned =>
        /\ verdicts[Len(verdicts)] = (outCells = << >>)
        /\ examined = path.n * 6
        /\ log = outCells

\* verify_path returned False for a path with a violation in each of two
\* frames.
C4_Witness ==
    /\ pc = "api_done" /\ path.caller = "direct" /\ path.n = 2
    /\ verdicts = <<FALSE>>
    /\ Len(log) = 2 /\ log[1][1] = 0 /\ log[2][1] = 1
    /\ examined = 12

\* Path k of the run has a violating (frame, leg).
PathViolates(name) ==
    \E c \in DOMAIN ScriptCatalogue[name].ik : OutOfRange(ScriptCatalogue[name].ik[c])

\* C5: in a hexapod run, with a path that failed verification the process
\* exits with status 1 and the output file is never opened or written; with
\* every path verified the body and the accessor of every collected path are
\* written and main returns 0.
C5_AbortOrWriteAll ==
    (robot = "hexapod" /\ pc = "exit") =>
        IF \E k \in 1..Len(verdicts) : ~verdicts[k]
        THEN exitCode = 1 /\ outFile = "absent" /\ written = << >>
        ELSE /\ exitCode = 0
             /\ written = [k \in 1..(2 * Len(hexPaths)) |->
                              IF k <= Len(hexPaths) THEN <<"body", hexPaths[k]>>
                              ELSE <<"def", hexPaths[k - Len(hexPaths)]>>]

GenPathCalled ==
    /\ pc = "api_done" /\ apiResult.called
    /\ apiResult.gait_mode \in {GAIT_TROT, GAIT_WALK, GAIT_GALLOP, GAIT_CREEP}

\* C11: the trot gait at default speed, with frameTimeMs = 20, amplitudeX =
\* 25 and amplitudeZ = 35, has a 200 ms cycle, 5 ticks per stage and a
\* forward trajectory of 10 frames, with entries [start, (start + 5) mod 10].
C11_TrotDefaultCycle ==
    /\ (GenPathCalled /\ apiResult.gait_mode = GAIT_TROT /\ apiResult.gait_speed = 0
        /\ apiResult.move_status = MOVE_FORWARD) =>
          /\ gait.frame_time_ms = 20
          /\ gait.amplitudeX = 25 * Micro /\ gait.amplitudeZ = 35 * Micro
          /\ trot_duration(gait, 0) = 200
          /\ NumTicks(trot_duration(gait, 0), gait.frame_time_ms, 2) = 5
          /\ Len0(apiResult.ret.path) = 10
    /\ (robot = "quad" /\ pc = "fast_scale" /\ loc.gait_mode = GAIT_TROT) =>
          /\ loc.n = 10
          /\ Len0(loc.entries) = 2
          /\ loc.entries[1] = (loc.entries[0] + 5) % 10

\* C12: for every supported gait mode, gen_path with move status standby
\* returns one frame in which every leg is at its home position, and with
\* move status forward the whole cycle of numTicks * stageCount frames.
C12_StandbyAndForward ==
    GenPathCalled =>
        /\ apiResult.ret.raised = "none"
        /\ apiResult.move_status = MOVE_STANDBY =>
              /\ DOMAIN apiResult.ret.path = 0..0
              /\ \A leg \in 0..3 :
                    apiResult.ret.path[0][leg]
                        = <<gait.home_x[leg], gait.home_y[leg], gait.home_z[leg]>>
        /\ apiResult.move_status = MOVE_FORWARD =>
              DOMAIN apiResult.ret.path
                  = 0..(((CycleDuration(gait, apiResult.gait_mode, apiResult.gait_speed)
                              \div gait.frame_time_ms)
                            \div StageCount(apiResult.gait_mode))
                          * StageCount(apiResult.gait_mode) - 1)

\* gen_path has returned the single standby frame of the walk gait.
C12_Witness ==
    /\ GenPathCalled /\ apiResult.gait_mode = GAIT_WALK
    /\ apiResult.move_status = MOVE_STANDBY
    /\ Len0(apiResult.ret.path) = 1

\* C13: gen_path with a gait mode other than trot, walk, gallop or creep
\* raises ValueError for every move status and speed, returns no trajectory
\* and leaves the amplitudes and home positions of the QuadGait as they were.
C13_UnknownModeRaises ==
    (pc = "api_done" /\ apiResult.called
     /\ apiResult.gait_mode \notin {GAIT_TROT, GAIT_WALK, GAIT_GALLOP, GAIT_CREEP}) =>
        /\ apiResult.ret.raised = "ValueError"
        /\ DOMAIN apiResult.ret.path = {}
        /\ gait = QuadModelInit(cfgFile)

\* gen_path has raised for an unknown mode with move status standby at the
\* slow speed.
C13_Witness ==
    /\ pc = "api_done" /\ apiResult.called
    /\ apiResult.gait_mode = GAIT_UNKNOWN
    /\ apiResult.move_status = MOVE_STANDBY /\ apiResult.gait_speed = 1
    /\ apiResult.ret.raised = "ValueError"

\* C14: the loader never aborts; for an unreadable file it returns the
\* default table and prints a warning; for a readable file each constant
\* takes the parsed value of its definition, or its default without one; the
\* result always has the keys of the default table.
C14_LoaderFallsBack ==
    /\ (pc = "quad_new") => exc = "none"
    /\ (pc = "gen_call" /\ calls = 0) => (exc = "none" /\ cfg # NoConfig)
    /\ cfg # NoConfig =>
          /\ DOMAIN cfg = DOMAIN ConfigDefaults
          /\ ~cfgFile.readable => (cfg = ConfigDefaults /\ Len(console) >= 1)
          /\ cfgFile.readable =>
                \A k \in DOMAIN ConfigDefaults :
                    cfg[k] = IF k \in DOMAIN cfgFile.defs
                             THEN cfgFile.defs[k] ELSE ConfigDefaults[k]

\* The loader has read a file that defines two of the nine constants.
C14_Witness ==
    /\ pc = "gen_call" /\ calls = 0 /\ cfgFile.readable
    /\ cfg.kQuadLegMountOtherX = 30000000 /\ cfg.kQuadLegMountOtherY = 40000000
    /\ cfg.kLegRootToJoint1 = ConfigDefaults.kLegRootToJoint1

\* C15: a run with a --robot value other than hexapod or quad ends with
\* exit code 1, has not created the output directory and has written
\* nothing.
C15_UnsupportedRobotExitsOne ==
    (pc = "exit" /\ robot \notin robot_choices) =>
        /\ exitCode = 1
        /\ outDir = outDir0
        /\ outFile = "absent" /\ written = << >>

\* The run was started by main with a robot kind the parser accepts.
CliRunEnded == pc = "exit" /\ robot \in robot_choices

\* C16 (as the code has it): main creates a missing output directory
\* before it dispatches, and a quad run that nothing interrupts then ends
\* with exit code 0 and its file written; a missing scripted-path directory
\* is fatal: the run ends with exit code 1 and without an output file, the
\* output directory having been created.
C16_MissingDirectories ==
    /\ (robot \in robot_choices /\ exitCode # -1) => outDir = "present"
    /\ (CliRunEnded /\ robot = "quad" /\ faults = 0) =>
          (exitCode = 0 /\ outFile = "closed" /\ written # << >>)
    /\ (CliRunEnded /\ robot = "hexapod" /\ pathDir = "absent") =>
          (exitCode = 1 /\ exc = "FileNotFoundError"
           /\ outFile = "absent" /\ written = << >>)

\* A quad run that found no output directory has ended successfully.
C16_Witness ==
    /\ CliRunEnded /\ robot = "quad" /\ outDir0 = "absent"
    /\ exitCode = 0 /\ outFile = "closed" /\ outDir = "present"

\* C16 as stated: a run that found the output directory or the scripted-path
\* directory missing ends unsuccessfully and has written nothing to the
\* file system.
C16_MissingDirectoryIsFatal ==
    (CliRunEnded /\ (outDir0 = "absent" \/ pathDir = "absent")) =>
        /\ exitCode # 0
        /\ outDir = outDir0
        /\ outFile = "absent" /\ written = << >>

\* Table b is table a run backwards in time from frame 0.
ReversedCycle(a, b) ==
    LET n == FrameCount(a)
    IN  /\ FrameCount(b) = n
        /\ \A leg \in Legs : \A i \in 0..(n - 1) :
              b.data[leg][i] = a.data[leg][(n - i) % n]

\* The pose search of normalize_pair_entries on the pair (a, b) hits.
PoseSearchHits(a, b) ==
    find_matching_index(a.data, second_or_first(a.entries), b.data) >= 0

\* The loop body of generate_all_gaits is about to normalise the pair
\* (a_variant, b_variant) of the gallop gait.
GallopPairAt(at) == robot = "quad" /\ pc = at /\ loc.gait_mode = GAIT_GALLOP

\* C17: for the gallop gait shiftright[L][i] = shiftleft[L][(N - i) mod N]
\* and turnright[L][i] = turnleft[L][(N - i) mod N] for every leg L and
\* frame i, and the pose search of the normalisation of these two pairs
\* finds an identical pose, so the fallback is not taken.
C17_GallopReverseCycle ==
    /\ Returned =>
          /\ ReversedCycle(results[Key("quad_gallop", "shiftleft")],
                           results[Key("quad_gallop", "shiftright")])
          /\ ReversedCycle(results[Key("quad_gallop", "turnleft")],
                           results[Key("quad_gallop", "turnright")])
    /\ GallopPairAt("norm_turn") =>
          /\ ReversedCycle(results[Key("quad_gallop", "turnleft")],
                           results[Key("quad_gallop", "turnright")])
          /\ PoseSearchHits(results[Key("quad_gallop", "turnleft")],
                            results[Key("quad_gallop", "turnright")])
    /\ GallopPairAt("norm_shift") =>
          /\ ReversedCycle(results[Key("quad_gallop", "shiftleft")],
                           results[Key("quad_gallop", "shiftright")])
          /\ PoseSearchHits(results[Key("quad_gallop", "shiftleft")],
                            results[Key("quad_gallop", "shiftright")])

\* The gallop shift pair is about to be normalised: shiftright is a table
\* other than shiftleft, and the pose search hits a frame other than the
\* one it searched for.
C17_Witness ==
    /\ GallopPairAt("norm_shift")
    /\ LET a == results[Key("quad_gallop", "shiftleft")]
           b == results[Key("quad_gallop", "shiftright")]
       IN  /\ a.data # b.data
           /\ PoseSearchHits(a, b)
           /\ find_matching_index(a.data, second_or_first(a.entries), b.data)
                 # second_or_first(a.entries)

\* gen_path has returned a forward trajectory of a supported gait.
ForwardReturned == GenPathCalled /\ apiResult.move_status = MOVE_FORWARD

\* The displacement of a leg from its home position at frame i of that
\* trajectory; the frames hold the legs in the order FR, FL, BL, BR.
ForwardDisp(leg, i) ==
    <<apiResult.ret.path[i][leg][1] - gait.home_x[leg],
      apiResult.ret.path[i][leg][2] - gait.home_y[leg],
      apiResult.ret.path[i][leg][3] - gait.home_z[leg]>>

\* The legs whose waveform a gait synthesises, each with its lift stage.
ReferenceLegs(gait_mode) ==
    CASE gait_mode = GAIT_TROT -> {<<0, 0>>}
      [] gait_mode = GAIT_WALK -> {<<1, 0>>}
      [] gait_mode = GAIT_GALLOP -> {<<1, 0>>}
      [] gait_mode = GAIT_CREEP -> {<<0, 0>>, <<2, 2>>}

\* C18: in the forward trajectory of every gait mode the vertical
\* displacement of the reference leg is >= 0 at every tick of its lift stage
\* and 0 at every tick of its stance stages; no leg of a gait table has a
\* negative vertical displacement at any frame.
C18_LiftNeverNegative ==
    /\ ForwardReturned =>
          LET n == Len0(apiResult.ret.path)
              num_ticks == n \div StageCount(apiResult.gait_mode)
          IN  \A r \in ReferenceLegs(apiResult.gait_mode) : \A i \in 0..(n - 1) :
                  IF i \div num_ticks = r[2]
                  THEN ForwardDisp(r[1], i)[3] >= 0
                  ELSE ForwardDisp(r[1], i)[3] = 0
    /\ robot = "quad" =>
          \A b \in BaseNames : \A v \in GaitVariants :
              Key(b, v) \in DOMAIN results =>
                  LET t == results[Key(b, v)]
                  IN  \A leg \in DOMAIN t.data : \A i \in DOMAIN t.data[leg] :
                          t.data[leg][i][3] >= 0

\* gen_path has returned the forward trajectory of the creep gait, in which
\* leg BL is off the ground at a tick of stage 2 and on it in stage 0.
C18_Witness ==
    /\ ForwardReturned /\ apiResult.gait_mode = GAIT_CREEP
    /\ LET num_ticks == Len0(apiResult.ret.path) \div 6
       IN  /\ \E i \in (2 * num_ticks)..(3 * num_ticks - 1) : ForwardDisp(2, i)[3] > 0
           /\ \A i \in 0..(num_ticks - 1) : ForwardDisp(2, i)[3] = 0

RECURSIVE ISqrtIn(_, _, _)
\* The largest r in lo..hi with r * r <= v.
ISqrtIn(v, lo, hi) ==
    IF lo >= hi THEN lo
    ELSE LET mid == (lo + hi + 1) \div 2
         IN  IF mid * mid <= v THEN ISqrtIn(v, mid, hi) ELSE ISqrtIn(v, lo, mid - 1)

\* hypot(x, y) of a displacement, in hundredths of a millimetre.
HypotXY(v) ==
    LET x == RoundDiv(v[1], Micro \div 100)
        y == RoundDiv(v[2], Micro \div 100)
    IN  ISqrtIn(x * x + y * y, 0, 30000)

DirectionalVariants == {"shiftleft", "shiftright", "turnleft", "turnright"}

\* The table a directional variant is made from (lines 392-452).
SourceVariant(gait_mode, v) ==
    IF v = "turnright" /\ gait_mode # GAIT_GALLOP THEN "backward" ELSE "forward"

\* The source frame of frame i: the gallop right-hand variants are the
\* left-hand ones reversed in time.
SourceFrame(gait_mode, v, i, n) ==
    IF gait_mode = GAIT_GALLOP /\ v \in {"shiftright", "turnright"}
    THEN (n - i) % n ELSE i

\* The leg of the variant that carries the displacement of source leg `old`.
TargetLeg(gait_mode, v, old) ==
    IF gait_mode \in phase_sensitive_gaits /\ v = "shiftleft" THEN perm_rotate_ccw[old]
    ELSE IF gait_mode \in phase_sensitive_gaits /\ v = "shiftright" THEN perm_rotate_cw[old]
    ELSE old

\* Equal z, and XY magnitudes equal to the precision of the fixed-point
\* rotation (0.03 mm on strides of 25 mm and more).
SameMagnitudeAndZ(d, src) ==
    /\ d[3] = src[3]
    /\ Abs(HypotXY(d) - HypotXY(src)) <= 3

\* C19: in the shiftleft, shiftright, turnleft and turnright tables of every
\* gait each leg displacement has the XY magnitude hypot(x, y) and the z of
\* the displacement of the source frame it was derived from.
C19_RotationKeepsMagnitude ==
    Returned =>
        \A k \in DOMAIN gait_defs : \A v \in DirectionalVariants :
            LET gm == gait_defs[k].gait_mode
                t == results[Key(gait_defs[k].base_name, v)]
                src == results[Key(gait_defs[k].base_name, SourceVariant(gm, v))]
                n == FrameCount(t)
            IN  /\ FrameCount(src) = n
                /\ \A old \in Legs : \A i \in 0..(n - 1) :
                      SameMagnitudeAndZ(t.data[TargetLeg(gm, v, old)][i],
                                        src.data[old][SourceFrame(gm, v, i, n)])

\* The creep tables are returned; at a frame of turnright leg FR is lifted
\* and its displacement is the backward one turned to another direction.
C19_Witness ==
    /\ Returned
    /\ LET t == results[Key("quad_creep", "turnright")]
           src == results[Key("quad_creep", "backward")]
       IN  \E i \in DOMAIN t.data[0] :
              /\ t.data[0][i][3] > 0 /\ HypotXY(src.data[0][i]) > 1000
              /\ t.data[0][i] # src.data[0][i]
              /\ t.data[0][i][1] # 0 /\ t.data[0][i][2] # 0
              /\ SameMagnitudeAndZ(t.data[0][i], src.data[0][i])

\* In the forward trajectory gen_path returned, the displacements of `leg`
\* are those of `ref` rotated to the right by `off` frames.
RotatedBy(leg, ref, off) ==
    LET n == Len0(apiResult.ret.path)
    IN  \A i \in 0..(n - 1) : ForwardDisp(leg, i) = ForwardDisp(ref, (i - off + n) % n)

\* The legs of a frame, in its order.
FR == 0
FL == 1
BL == 2
BR == 3

\* C20: in every forward trajectory the sequence of each leg is a cyclic
\* rotation of a reference sequence: for trot two legs have the reference
\* and two the reference rotated by half a cycle; for walk and gallop the
\* four legs are the reference rotated by 0, 1/4, 1/2 and 3/4 of a cycle,
\* one leg per offset; for creep FL is FR rotated by half a cycle and BR is
\* BL rotated by half a cycle.
C20_LegsAreRotations ==
    ForwardReturned =>
        LET n == Len0(apiResult.ret.path)
            gm == apiResult.gait_mode
        IN  /\ gm = GAIT_TROT =>
                  /\ Cardinality({leg \in Legs : RotatedBy(leg, FR, 0)}) = 2
                  /\ Cardinality({leg \in Legs : RotatedBy(leg, FR, n \div 2)}) = 2
            /\ gm \in {GAIT_WALK, GAIT_GALLOP} =>
                  /\ n % 4 = 0
                  /\ \A q \in 0..3 :
                        Cardinality({leg \in Legs : RotatedBy(leg, FL, q * (n \div 4))}) = 1
            /\ gm = GAIT_CREEP =>
                  /\ n % 2 = 0
                  /\ RotatedBy(FL, FR, n \div 2)
                  /\ RotatedBy(BR, BL, n \div 2)

\* gen_path has returned the forward trajectory of the walk gait: BR is FL
\* a quarter of a cycle later, and is not FL itself.
C20_Witness ==
    /\ ForwardReturned /\ apiResult.gait_mode = GAIT_WALK
    /\ RotatedBy(BR, FL, Len0(apiResult.ret.path) \div 4)
    /\ ~RotatedBy(BR, FL, 0)

\* The frames of a leg-0 trajectory whose dz is within 1e-6 of the maximum.
PeakFrames(d) ==
    LET max_dz == MaxOf({d[i][3] : i \in DOMAIN d})
    IN  {i \in DOMAIN d : Abs(d[i][3] - max_dz) <= LiftEps}

\* Leg 0 lifts somewhere on the trajectory.
Lifts(d) == DOMAIN d # {} /\ \E i \in DOMAIN d : d[i][3] > LiftEps

\* `es` is the candidate list the claim describes for the trajectory d.
IsPeakSelection(d, es) ==
    LET n == Len0(d)
        first == es[0]
    IN  /\ first \in PeakFrames(d)
        /\ \A j \in PeakFrames(d) :
              \/ Abs(d[first][2]) < Abs(d[j][2])
              \/ Abs(d[first][2]) = Abs(d[j][2]) /\ first <= j
        /\ n >= 2 => es = List2(first, (first + n \div 2) % n)
        /\ n = 1 => es = List1(first)

\* The entry selection has been applied to a trajectory on its own.
EntriesComputed == pc = "api_done" /\ apiEntries.called

\* C21: on a trajectory of N frames whose leg 0 lifts, the first entry
\* candidate is, among the frames whose leg-0 dz is within 1e-6 of the
\* maximum, the one with the smallest |dy|, the lowest index among equals;
\* the second candidate is (first + N \div 2) mod N, and for N >= 2 the
\* candidate list is [first, second].
C21_EntrySelection ==
    /\ (EntriesComputed /\ Lifts(apiEntries.data_leg0)) =>
          /\ apiEntries.start = apiEntries.entries[0]
          /\ IsPeakSelection(apiEntries.data_leg0, apiEntries.entries)
          /\ IsPeakSelection(apiEntries.data_leg0, apiEntries.entries_fast)
    /\ (robot = "quad" /\ pc = "fast_scale" /\ Lifts(loc.data_fwd[0])) =>
          IsPeakSelection(loc.data_fwd[0], loc.entries)

\* The selection was applied to four frames: the highest frame is frame 3,
\* frames 1 and 2 are within 1e-6 of it and tie on |dy|, and frame 1 is
\* chosen, with frame 3 as the second candidate.
C21_Witness ==
    /\ EntriesComputed
    /\ apiEntries.data_leg0 = [i \in 0..3 |->
                                 CASE i = 0 -> <<0, 0, 0>>
                                   [] i = 1 -> <<0, -2, 5>>
                                   [] i = 2 -> <<0, 2, 6>>
                                   [] i = 3 -> <<0, 2, 6>>]
    /\ apiEntries.entries = List2(1, 3)

\* Leg 0 stays on the ground over the whole trajectory (max dz <= 0).
NeverLifts(d) == DOMAIN d # {} /\ \A i \in DOMAIN d : d[i][3] <= 0

\* C22: when the entry selection is applied to a trajectory of N frames
\* whose leg 0 never lifts, the first entry candidate is
\* N \div (2 * stageCount), for the tables computed by lines 261-270 and
\* compute_entries_for_data and for forwardfast alike, and the index is
\* within 0..N-1.
C22_NoLiftFallback ==
    (EntriesComputed /\ NeverLifts(apiEntries.data_leg0)) =>
        LET n == Len0(apiEntries.data_leg0)
            midpoint == n \div (2 * apiEntries.stages)
        IN  /\ apiEntries.entries[0] = midpoint
            /\ apiEntries.entries_fast[0] = midpoint
            /\ apiEntries.entries[0] \in 0..(n - 1)
            /\ apiEntries.entries_fast[0] \in 0..(n - 1)

\* a_out and b_out are what the claim says normalize_pair_entries leaves of
\* the tables a and b.
PairNormalised(a, b, a_out, b_out) ==
    LET a_idx == IF Len0(a.entries) >= 2 THEN a.entries[1] ELSE a.entries[0]
        b_own == IF Len0(b.entries) >= 2 THEN b.entries[1] ELSE b.entries[0]
        matches == {j \in DOMAIN b.data[0] : pose_key(b.data, j) = pose_key(a.data, a_idx)}
    IN  /\ a_out.entries = List1(a_idx)
        /\ Len0(b_out.entries) = 1
        /\ matches # {} =>
              /\ b_out.entries[0] \in matches
              /\ \A j \in matches : b_out.entries[0] <= j
        /\ matches = {} => b_out.entries[0] = b_own
        /\ a_out.data = a.data /\ a_out.mode = a.mode /\ a_out.dur = a.dur
        /\ b_out.data = b.data /\ b_out.mode = b.mode /\ b_out.dur = b.dur

\* The position of generate_all_gaits at which a pair is normalised.
NormalizePc(first_variant) ==
    CASE first_variant = "forward" -> "norm_forward"
      [] first_variant = "turnleft" -> "norm_turn"
      [] first_variant = "shiftleft" -> "norm_shift"

\* normalize_pair_entries has been applied to two tables on its own.
PairApplied == pc = "api_done" /\ apiPair.called

\* C23: normalize_pair_entries(A, B) sets A's entry to A's second candidate
\* (its first if it has one only) and B's entry to the lowest frame of B
\* whose rounded pose is A's pose at that entry, or, without such a frame,
\* to B's own second candidate (its first if it has one only); the frame
\* data, mode and duration of both tables stay as they were.  Stated for
\* the application to two tables on their own and for every normalising
\* step of generate_all_gaits.
C23_NormalizePair ==
    /\ [](PairApplied =>
            PairNormalised(apiPair.a, apiPair.b, apiPair.a_out, apiPair.b_out))
    /\ [][\A p \in PairedVariants :
            (robot = "quad" /\ pc = NormalizePc(p[1])) =>
                PairNormalised(results[Key(loc.base_name, p[1])],
                               results[Key(loc.base_name, p[2])],
                               results'[Key(loc.base_name, p[1])],
                               results'[Key(loc.base_name, p[2])])]_vars

\* Table A is one frame at home; both frames of B round to that pose, the
\* first lying 4e-5 mm off it; B is left with frame 0 although its own
\* second candidate is frame 1.
C23_Witness ==
    /\ PairApplied
    /\ FrameCount(apiPair.a) = 1 /\ apiPair.a.data[0][0] = <<0, 0, 0>>
    /\ FrameCount(apiPair.b) = 2
    /\ apiPair.b.data[0][0] = <<0, 0, 40>> /\ apiPair.b.data[0][1] = <<0, 0, 0>>
    /\ apiPair.b.entries = List2(0, 1)
    /\ apiPair.b_out.entries = List1(0)

\* A displacement turned by +90 and by -90 degrees about Z.
TurnedLeft(v) == <<-v[2], v[1], v[3]>>

TurnedRight(v) == <<v[2], -v[1], v[3]>>

\* The leg mappings old -> new the claim names.
ClaimCcw == [l \in Legs |-> CASE l = 0 -> 3 [] l = 3 -> 2 [] l = 2 -> 1 [] l = 1 -> 0]

ClaimCw == [l \in Legs |-> CASE l = 0 -> 1 [] l = 1 -> 2 [] l = 2 -> 3 [] l = 3 -> 0]

IdentityOnLegs == [l \in Legs |-> l]

Bijective(perm) == DOMAIN perm = Legs /\ {perm[l] : l \in Legs} = Legs

\* Leg perm[L] of table t holds the sequence of leg L of table src, every
\* displacement turned by Turn.
PermutedAndTurned(t, src, perm, Turn(_)) ==
    /\ FrameCount(t) = FrameCount(src)
    /\ \A old \in Legs : \A i \in 0..(FrameCount(src) - 1) :
          t.data[perm[old]][i] = Turn(src.data[old][i])

\* C24: for walk and creep shiftleft[ccw(L)][i] is forward[L][i] turned by
\* +90 degrees about Z and shiftright[cw(L)][i] is forward[L][i] turned by
\* -90 degrees; for trot, and for the shiftleft table of gallop, each leg
\* keeps its index.  The mappings are bijections on the four legs, so every
\* leg of a permuted table holds the whole sequence of one source leg.
C24_LateralPermutations ==
    /\ perm_rotate_ccw = ClaimCcw /\ perm_rotate_cw = ClaimCw
    /\ Bijective(perm_rotate_ccw) /\ Bijective(perm_rotate_cw)
    /\ Returned =>
          \A k \in DOMAIN gait_defs :
              LET gm == gait_defs[k].gait_mode
                  fwd == results[Key(gait_defs[k].base_name, "forward")]
                  sl == results[Key(gait_defs[k].base_name, "shiftleft")]
                  sr == results[Key(gait_defs[k].base_name, "shiftright")]
              IN  /\ gm \in {GAIT_WALK, GAIT_CREEP} =>
                        /\ PermutedAndTurned(sl, fwd, ClaimCcw, TurnedLeft)
                        /\ PermutedAndTurned(sr, fwd, ClaimCw, TurnedRight)
                  /\ gm = GAIT_TROT =>
                        /\ PermutedAndTurned(sl, fwd, IdentityOnLegs, TurnedLeft)
                        /\ PermutedAndTurned(sr, fwd, IdentityOnLegs, TurnedRight)
                  /\ gm = GAIT_GALLOP =>
                        PermutedAndTurned(sl, fwd, IdentityOnLegs, TurnedLeft)

\* The walk tables are returned: at some frame leg 3 of shiftleft holds the
\* lifted displacement of leg 0 of forward, turned, which is not what leg 3
\* of forward has there.
C24_Witness ==
    /\ Returned
    /\ LET fwd == results[Key("quad_walk", "forward")]
           sl == results[Key("quad_walk", "shiftleft")]
       IN  \E i \in DOMAIN fwd.data[0] :
              /\ fwd.data[0][i][3] > 0 /\ fwd.data[0][i][1] # 0
              /\ sl.data[3][i] = TurnedLeft(fwd.data[0][i])
              /\ sl.data[3][i] # TurnedLeft(fwd.data[3][i])

\* C25: the frames gen_path returns hold the legs in the order of the
\* QuadModel (0:FR, 1:BR, 2:BL, 3:FL): the waveform synthesised for a named
\* leg is at that leg's index, offset by that leg's home position.
C25_LegOrderShared ==
    ForwardReturned =>
        LET named == named_paths(gait, apiResult.gait_mode, apiResult.gait_speed)
        IN  \A name \in DOMAIN model_leg_index :
                LET leg == model_leg_index[name]
                IN  \A i \in DOMAIN apiResult.ret.path :
                        apiResult.ret.path[i][leg]
                            = <<named[name][i][1] + gait.home_x[leg],
                                named[name][i][2] + gait.home_y[leg],
                                named[name][i][3] + gait.home_z[leg]>>

\* The length field of a body's descriptor is the number of rows of its
\* paths array, and the entry-count field the number of indices of its
\* entries array.
DescriptorCounts(text) ==
    /\ text.table.count = Len0(text.rows)
    /\ text.table.ecount = Len0(text.entries)

\* generate_c_body of the hexapod models has been applied to one table.
BodyApplied == pc = "api_done" /\ apiBody.called

\* C26: in the text emitted for a table the length field of the descriptor
\* is the number of frame rows written to the paths array and the
\* entry-count field the number of indices written to the entries array,
\* for hexapod shift mode, hexapod matrix mode and quad shift_quad mode.
C26_DescriptorMatchesArrays ==
    /\ (BodyApplied /\ apiBody.params.mode \in {"shift", "matrix"}) =>
          /\ apiBody.text.raised = "none"
          /\ DescriptorCounts(apiBody.text)
          /\ Len0(apiBody.text.rows) = apiBody.params.n
    /\ \A name \in DOMAIN emitted :
          /\ emitted[name].raised = "none"
          /\ DescriptorCounts(emitted[name])
          /\ Len0(emitted[name].rows) = FrameCount(results[name])

\* The quad run has written its tables, the creep tables with 36 rows and
\* one entry each.
C26_Witness ==
    /\ pc = "exit" /\ robot = "quad" /\ exitCode = 0
    /\ Key("quad_creep", "turnleft") \in DOMAIN emitted
    /\ emitted[Key("quad_creep", "turnleft")].table.count = 36
    /\ emitted[Key("quad_creep", "turnleft")].table.ecount = 1
    /\ Len0(emitted[Key("quad_creep", "turnleft")].rows) = 36

\* C27: the HexapodModel of models/hexapod.py behaves as the HexapodModel
\* of main.py: for every path of mode shift or matrix verify_path returns
\* the same verdict and generate_c_body the same text, rows, entries and
\* descriptor fields alike.
C27_RefactoringKeepsBehaviour ==
    /\ robot = "hexapod" =>
          \A k \in 1..Len(verdicts) :
              ScriptCatalogue[hexPaths[k]].mode \in {"shift", "matrix"} =>
                  verdicts[k] = legacy_verify_path(hexPaths[k])
    /\ (BodyApplied /\ apiBody.params.mode \in {"shift", "matrix"}) =>
          apiBody.text = apiBody.legacy_text

\* The six directions a gait is exported for.
SixDirections ==
    {"forward", "backward", "shiftleft", "shiftright", "turnleft", "turnright"}

\* C28: the directional tables of one gait are pairwise different: no two
\* of forward, backward, shiftleft, shiftright, turnleft and turnright hold
\* the same frame data; in particular trot_backward differs from
\* trot_forward and trot_turnright from trot_turnleft.
C28_DirectionalTablesDiffer ==
    Returned =>
        \A b \in BaseNames : \A v1 \in SixDirections : \A v2 \in SixDirections \ {v1} :
            results[Key(b, v1)].data # results[Key(b, v2)].data

\* The legs of table t that frame i holds above the ground.
LiftedLegs(t, i) == {leg \in DOMAIN t.data : t.data[leg][i][3] > 0}

\* The two diagonal pairs of legs, by the leg indices of the tables.
DiagonalPairs == {{0, 2}, {1, 3}}

\* The gait tables generate_all_gaits has stored so far, with their gait.
StoredGaitTables ==
    {<<gait_defs[k].gait_mode, results[Key(gait_defs[k].base_name, v)]>> :
        <<k, v>> \in {kv \in (DOMAIN gait_defs) \X GaitVariants :
                        Key(gait_defs[kv[1]].base_name, kv[2]) \in DOMAIN results}}

\* C29: in every frame of every walk, gallop and creep table, forward,
\* forwardfast and every derived variant, at most one leg has a positive
\* vertical displacement; in every frame of every trot table the lifted
\* legs are a subset of one diagonal pair, legs 0 and 2 or legs 1 and 3.
C29_LiftedLegsPerFrame ==
    robot = "quad" =>
        \A gt \in StoredGaitTables : \A i \in DOMAIN gt[2].data[0] :
            IF gt[1] = GAIT_TROT
            THEN \E pair \in DiagonalPairs : LiftedLegs(gt[2], i) \subseteq pair
            ELSE Cardinality(LiftedLegs(gt[2], i)) <= 1

\* All tables are returned; every leg of the walk, gallop and creep tables is
\* the lifted one of some frame, also in the remapped and time-reversed
\* variants, and both diagonal pairs of the trot tables are lifted in turn.
C29_Witness ==
    /\ Returned
    /\ \A b \in BaseNames : \A v \in GaitVariants : Key(b, v) \in DOMAIN results
    /\ \A gt \in StoredGaitTables :
          IF gt[1] = GAIT_TROT
          THEN \A pair \in DiagonalPairs :
                  \E i \in DOMAIN gt[2].data[0] : LiftedLegs(gt[2], i) = pair
          ELSE \A leg \in 0..(LEG_COUNT - 1) :
                  \E i \in DOMAIN gt[2].data[0] : LiftedLegs(gt[2], i) = {leg}

\* C30: a failed run leaves no partially written output file: a hexapod
\* path whose mode is neither shift nor matrix is rejected before the output
\* file is opened, so whenever the emission raises, the output file has
\* been neither created nor truncated.
C30_NoPartialOutput ==
    /\ (robot = "hexapod" /\ pc = "hex_write") =>
          \A k \in 1..Len(hexPaths) : ~body_raises(hexPaths[k])
    /\ (robot = "hexapod" /\ pc = "raised" /\ exc = "RuntimeError") =>
          (outFile = "absent" /\ written = << >>)

====
